---- MODULE Spec2Model ----
(***************************************************************************)
(* Model of the plugins of segmentio/coredns-plugins; of the consul plugin: *)
(*   - the cache dispatcher goroutine (cache.serve), the per-entry load    *)
(*     and serve goroutines (cache.spawn, serviceCache.serve) and the      *)
(*     lookups made by Consul.serveDNS            (specification Spec);    *)
(*   - the lazy initialisation of the plugin, Consul.grabCache             *)
(*     (specification GrabSpec);                                           *)
(*   - the routing of a query name by Consul.serveDNS and splitName        *)
(*     (NameSpec) and serviceResponse.header (HeaderSpec);                 *)
(* and of the dogstatsd plugin:                                            *)
(*   - Dogstatsd.run, collectMetrics and state.observe (DogSpec);          *)
(*   - Dogstatsd.flushMetrics (FlushSpec) and counterStore (StoreSpec).    *)
(***************************************************************************)
EXTENDS Integers, Sequences, FiniteSets, TLC

\* ---------------------------------------------------------------- bounds
\* capacity of every channel of the cache (Consul.MaxRequests)
MaxRequests == 1
\* number of ServeDNS calls made on the plugin
MaxLookups == 3
\* number of entries cache.spawn may create
MaxEntries == 2
\* number of ServeDNS calls whose context gets cancelled
MaxCancels == 1
\* configured TTL, in seconds (Consul.TTL)
TTL == 2
\* number of goroutines that call grabCache concurrently
MaxQueries == 2
\* number of labels of a query name
MaxLabels == 4
\* largest remaining lifetime of a response, in quarters of a second
MaxRemaining == 240
\* largest value of the counter and of the gauge of the registry
MaxValue == 2
MaxGauge == 1
\* number of buckets of the histogram of the registry, and of observations
\* it receives
NBuckets == 2
MaxObs == 2
\* number of times run calls reportMetrics, and number of queries served by
\* the dogstatsd plugin
MaxReports == 3
MaxServes == 1
\* number of metrics handed to flushMetrics, largest length of a line and
\* largest buffer size returned by dial
MaxMetrics == 4
MaxLine == 4
MaxBuffer == 3
\* number of calls of incr and of top on a counterStore, and largest n
MaxIncrs == 4
MaxTops == 2
MaxTopN == 3
\* number of parts of a family name
MaxParts == 3
\* number of arguments on a line of the configuration block
MaxArgs == 2
\* number of goroutines that call incr and top on one counterStore
MaxThreads == 3
\* number of queries served one after the other
MaxAsked == 2
\* the largest configured ttl, and the latest time serve starts at
MaxTTL == 8
MaxNow == 2
\* number of calls of Start and Stop on one plugin
MaxCalls == 3
\* number of ServeDNS calls in the runs that are checked for progress
MaxWaiters == 2
\* number of gathers of a histogram that may be registered anew
MaxScrapes == 3
\* where the unsigned integers of the model wrap around
WordModulus == 1073741824

\* ------------------------------------------------------ program constants
PrefetchAmount == 2
timeBuckets == 4
\* collectMetrics: d.clients.top(10)
TopN == 10
defaultBufferSize == 1024
\* the bytes of the shortest decimal form of a float64
RandLen == 24

Keys == {"k1", "k2"}
Nil == 0
NoErr == "nil"
NoSrv == "none"
errTooManyRequests == "too many requests"
ctxErr == "context canceled"
errUpstream == "upstream error"

\* what the agent may answer to GET /v1/health/service/...: serviceCache.load
\* returns (services, nil) or (nil, err)
Fetches ==
    { [services |-> <<>>, err |-> errUpstream],
      [services |-> <<>>, err |-> NoErr],
      [services |-> <<"s1", "s2">>, err |-> NoErr] }

VARIABLES
    cacheReqs,    \* cache.reqs: the requests sent by serveDNS, not yet dispatched
    reqsClosed,   \* cache.close() was called
    dpc,          \* position of the dispatcher goroutine (cache.serve)
    caches,       \* cache.serve: caches map, key -> entry (Nil when absent)
    prefetches,   \* cache.serve: prefetches map, key -> entry (Nil when absent)
    ready,        \* cache.serve: ready channel
    done,         \* cache.serve: done channel
    next,         \* cache.serve: next channel
    entries,      \* the serviceCache objects created by cache.spawn, in order
    lookups,      \* the serveDNS calls
    panicked,     \* a goroutine panicked (close of / send on a closed channel)
    ncancels,     \* number of contexts cancelled so far
    gmutex,       \* Consul.mutex: "free", or "w" while a goroutine holds Lock
    gcache,       \* Consul.cache (Nil or the id of the installed cache)
    gagent,       \* Consul.agent.Config.Datacenter
    ncaches,      \* number of caches created by Consul.init
    queries,      \* the goroutines running grabCache and the key building
    qname,        \* serveDNS: the labels of state.Name(), without the final dot
    qtype,        \* serveDNS: state.QType()
    qgrab,        \* serveDNS: whether grabCache returned without error
    routed,       \* serveDNS: how the call left lines 104-151 (NotRouted before)
    rttl,         \* serviceResponse.ttl, in quarters of a second
    hdr,          \* the dns.RR_Header built from the response (NoHeader before)
    last,         \* what d.Reg.Gather() returned to the latest collectMetrics
    prev,         \* what Gather returned to the collectMetrics before (history)
    dstate,       \* Dogstatsd.run: state, key -> last metric
    metrics,      \* reportMetrics: the metrics returned by collectMetrics
    dloop,        \* position of Dogstatsd.run
    nreports,     \* number of calls of reportMetrics
    stores,       \* d.clients, d.names, d.exchanges
    nserves,      \* number of calls of Dogstatsd.ServeDNS
    lines,        \* flushMetrics: len(buf) for every metric, in order
    bufferSize,   \* flushMetrics: the buffer size returned by dial
    flushed,      \* flushMetrics: the datagrams written, the lines dropped, err
    store,        \* a counterStore: c.index
    tops,         \* the calls of c.top made: n, the slice returned, and the
                  \* calls of c.incr since the call before, per key (history)
    incrs,        \* calls of c.incr since the latest c.top, per key (history)
    nincrs,       \* number of calls of c.incr
    arg,          \* the arguments of a function called by itself (NoArg: none)
    ret,          \* what the call returned (NoRes before it returns)
    once,         \* Dogstatsd.once: init has run
    cancelled,    \* d.cancel() was called: d.ctx is done
    wg,           \* Dogstatsd.wg: the counter of the WaitGroup
    calls,        \* the calls of Start and Stop: which one, and its position
    loops,        \* the goroutine of run started by each call of Start
    mutex,        \* counterStore.mutex: the goroutine that holds it, or Nil
    threads,      \* the goroutines that call incr and top: their position
                  \* and local variables
    gauges        \* the gauges cacheSize{success}, cacheSize{denial} and
                  \* cacheServices

cvars == <<cacheReqs, reqsClosed, dpc, caches, prefetches, ready, done, next,
           entries, lookups, panicked, ncancels>>
gvars == <<gmutex, gcache, gagent, ncaches, queries>>
nvars == <<qname, qtype, qgrab, routed>>
hvars == <<rttl, hdr>>
dvars == <<last, prev, dstate, metrics, dloop, nreports, stores, nserves>>
fvars == <<lines, bufferSize, flushed>>
svars == <<store, tops, incrs, nincrs>>
pvars == <<arg, ret>>
lvars == <<once, cancelled, wg, calls, loops>>
mvars == <<mutex, threads>>
uvars == <<gauges>>
xvars == <<pvars, lvars, mvars, uvars>>
ovars == <<nvars, hvars, dvars, fvars, svars, xvars>>
vars == <<cvars, gvars, ovars>>

\* the jitter added to the whole ttl, not to its half
Jitter_onTop(ttl) == { ttl + j : j \in 0 .. ((ttl \div 2) - 1) }

\* ------------------------------------------------------------ data shapes
\* cache.spawn: sc.ttl /= 2; sc.ttl += Int63n(sc.ttl)
Jitter(ttl) == { (ttl \div 2) + j : j \in 0 .. ((ttl \div 2) - 1) }

\* cache.spawn: the serviceCache as created, before its load returns
NewEntry(k, t) ==
    [ key |-> k, services |-> <<>>, err |-> NoErr, ttl |-> t,
      spc |-> "load",
      reqs |-> <<>>, closed |-> FALSE,
      roundRobin |-> 0, hits |-> 0, prefetch |-> FALSE, trig |-> FALSE,
      served |-> <<>> ]

\* a ServeDNS call: its position in serveDNS, its key, whether its context is
\* cancelled, and its res channel (capacity 1); a call that has returned
\* keeps nothing but what a request still queued for it refers to
NewLookup == [ pc |-> "new", key |-> "k1", ctx |-> "live", res |-> <<>> ]

Live == ~panicked

\* serviceCache.negative
negative(e) == entries[e].err # NoErr

\* serviceCache.serve: get(), the endpoint picked by the round-robin counter
get(e) ==
    IF Len(entries[e].services) # 0
    THEN entries[e].services[entries[e].roundRobin + 1]
    ELSE NoSrv

\* get() that forgets to advance the round-robin counter
getNext_stuck(e) == entries[e].roundRobin

\* serviceCache.serve: get(), the round-robin counter after the pick
getNext(e) ==
    IF Len(entries[e].services) # 0
    THEN (entries[e].roundRobin + 1) % Len(entries[e].services)
    ELSE entries[e].roundRobin

\* serviceCache.serve: ttl(), deadline - now clamped at 0. The model does not
\* count time: the value stands for the bound of what ttl() returns, the
\* lifetime of the entry while its timeout has not fired and 0 afterwards (the
\* timer fires no earlier than the deadline)
remaining(e) ==
    IF entries[e].spc = "serve" THEN entries[e].ttl ELSE 0

\* respond(req) that reads the error of the entry the caches map holds for the
\* key at the time of the response, and the endpoint of its own entry
response_shared(e, t) ==
    LET c == caches[entries[e].key]
        cur == IF c # Nil THEN c ELSE e
    IN IF entries[cur].err # NoErr
       THEN [srv |-> NoSrv, err |-> entries[cur].err, ttl |-> 0, from |-> e]
       ELSE [srv |-> get(e), err |-> NoErr, ttl |-> t, from |-> e]

\* serviceCache.serve: respond(req), the response sent on req.res
\* (from is a history field: the entry that answered)
response(e, t) ==
    IF entries[e].err # NoErr
    THEN [srv |-> NoSrv, err |-> entries[e].err, ttl |-> 0, from |-> e]
    ELSE [srv |-> get(e), err |-> NoErr, ttl |-> t, from |-> e]

\* serviceCache.serve: respond(req), the entry after the response (served is
\* a history field: the endpoints the entry has answered with, in order)
responded(e) ==
    IF entries[e].err # NoErr
    THEN entries[e]
    ELSE [entries[e] EXCEPT !.roundRobin = getNext(e),
                            !.served = IF get(e) # NoSrv THEN Append(@, get(e)) ELSE @]

\* req.res <- response: the channel has capacity 1 and takes one response; the
\* channel of a call that has returned is read by nobody and is dropped with
\* the call
deliver(r, resp) ==
    IF lookups[r].pc = "ret"
    THEN [lookups EXCEPT ![r] = [NewLookup EXCEPT !.pc = "ret"]]
    ELSE [lookups EXCEPT ![r].res = Append(@, resp)]

\* serviceRequest.reject(err)
rejection(err) == [srv |-> NoSrv, err |-> err, ttl |-> 0, from |-> Nil]

\* ------------------------------------------------------ unreachable objects
Range(q) == { q[j] : j \in 1 .. Len(q) }

\* entry e is held by a map or a channel of the dispatcher, or a response it
\* sent is still to be read
Referenced(e, c, p, rd, dn, lk) ==
    \/ \E k \in Keys : c[k] = e \/ p[k] = e
    \/ e \in Range(rd) \/ e \in Range(dn)
    \/ \E i \in 1 .. MaxLookups : lk[i].res # <<>> /\ lk[i].res[1].from = e

\* a serviceCache that nothing refers to and whose goroutines can take no
\* further step (returned, or blocked for ever on its empty request channel)
\* is garbage
Garbage(ents, e, c, p, rd, dn, lk) ==
    /\ ents[e].reqs = <<>>
    /\ \/ ents[e].spc = "exit"
       \/ ents[e].spc = "drain" /\ ~ents[e].closed
    /\ ~Referenced(e, c, p, rd, dn, lk)

\* the model forgets the fields of garbage, and keeps the position of its
\* goroutine and whether its channel is closed
Tidy(ents, c, p, rd, dn, lk) ==
    [ e \in 1 .. Len(ents) |->
        IF Garbage(ents, e, c, p, rd, dn, lk)
        THEN [ents[e] EXCEPT !.key = "k1", !.services = <<>>, !.err = NoErr,
                             !.roundRobin = 0, !.served = <<>>]
        ELSE ents[e] ]

\* ------------------------------------------------------- Consul.serveDNS
\* the keys a starting call may name: keys are interchangeable, so the first
\* call names k1
KeysFor(i) == IF i = 1 THEN {"k1"} ELSE Keys

\* serveDNS without the found.srv.addr == nil test
Answer_noNameError(found) ==
    IF found.err # NoErr
    THEN [rcode |-> "SERVFAIL", err |-> found.err, answer |-> NoSrv]
    ELSE [rcode |-> "NOERROR", err |-> NoErr, answer |-> found.srv]

\* serveDNS after the second select: the rcode, error and answer of the call
Answer(found) ==
    IF found.err # NoErr
    THEN [rcode |-> "SERVFAIL", err |-> found.err, answer |-> NoSrv]
    ELSE IF found.srv = NoSrv
         THEN [rcode |-> "NXDOMAIN", err |-> NoErr, answer |-> NoSrv]
         ELSE [rcode |-> "NOERROR", err |-> NoErr, answer |-> found.srv]

\* serveDNS leaving a select by case <-ctx.Done()
Aborted == [rcode |-> "SERVFAIL", err |-> ctxErr, answer |-> NoSrv]

\* a ServeDNS call builds its key, res and req and takes the first select by
\* case cache.reqs <- req (a call blocked on a full channel is a call that
\* sends later; calls are numbered in the order they leave the select).
\* Both cases of the select are ready when the context is already cancelled.
SendReq(i, k, c) ==
    /\ Live /\ ~reqsClosed
    /\ lookups[i].pc = "new"
    /\ IF i = 1 THEN TRUE ELSE lookups[i - 1].pc # "new"
    /\ k \in KeysFor(i)
    /\ c \in {"live", "cancelled"}
    /\ Len(cacheReqs) < MaxRequests
    /\ cacheReqs' = Append(cacheReqs, i)
    /\ c = "cancelled" => ncancels < MaxCancels
    /\ ncancels' = IF c = "cancelled" THEN ncancels + 1 ELSE ncancels
    /\ lookups' = [lookups EXCEPT ![i].pc = "wait", ![i].key = k, ![i].ctx = c]
    /\ UNCHANGED <<reqsClosed, dpc, caches, prefetches, ready, done, next,
                   entries, panicked, gvars, ovars>>

\* first select, case <-ctx.Done(): the context was cancelled before the call
\* or while the call was blocked on cache.reqs; the call returns Aborted
AbortSend(i) ==
    /\ Live /\ ~reqsClosed
    /\ lookups[i].pc = "new"
    /\ IF i = 1 THEN TRUE ELSE lookups[i - 1].pc # "new"
    /\ ncancels < MaxCancels
    /\ ncancels' = ncancels + 1
    /\ lookups' = [lookups EXCEPT ![i].pc = "ret"]
    /\ UNCHANGED <<cacheReqs, reqsClosed, dpc, caches, prefetches, ready, done,
                   next, entries, panicked, gvars, ovars>>

\* a cancellation that reaches the load of the entry of the key: the fetch in
\* flight is given the error of the context
Cancel_abortsFetch(i) ==
    /\ Live
    /\ lookups[i].pc = "wait"
    /\ lookups[i].ctx = "live"
    /\ ncancels < MaxCancels
    /\ ncancels' = ncancels + 1
    /\ lookups' = [lookups EXCEPT ![i].ctx = "cancelled"]
    /\ entries' = [ e \in 1 .. Len(entries) |->
                      IF entries[e].spc = "load" /\ entries[e].key = lookups[i].key
                      THEN [entries[e] EXCEPT !.err = ctxErr]
                      ELSE entries[e] ]
    /\ UNCHANGED <<cacheReqs, reqsClosed, dpc, caches, prefetches, ready, done,
                   next, panicked, gvars, ovars>>

\* the context of a call waiting for its response is cancelled
Cancel(i) ==
    /\ Live
    /\ lookups[i].pc = "wait"
    /\ lookups[i].ctx = "live"
    /\ ncancels < MaxCancels
    /\ ncancels' = ncancels + 1
    /\ lookups' = [lookups EXCEPT ![i].ctx = "cancelled"]
    /\ UNCHANGED <<cacheReqs, reqsClosed, dpc, caches, prefetches, ready, done,
                   next, entries, panicked, gvars, ovars>>

\* second select, case found = <-res: the call returns Answer(found)
Receive(i) ==
    /\ Live
    /\ lookups[i].pc = "wait"
    /\ lookups[i].res # <<>>
    /\ lookups' = [lookups EXCEPT ![i] = [NewLookup EXCEPT !.pc = "ret"]]
    /\ entries' = Tidy(entries, caches, prefetches, ready, done, lookups')
    /\ UNCHANGED <<cacheReqs, reqsClosed, dpc, caches, prefetches, ready, done,
                   next, panicked, ncancels, gvars, ovars>>

\* second select, case <-ctx.Done(): the call returns Aborted; its request
\* may still be queued, and its res channel is still written to
AbortWait(i) ==
    /\ Live
    /\ lookups[i].pc = "wait"
    /\ lookups[i].ctx = "cancelled"
    /\ lookups' = IF lookups[i].res # <<>>
                  THEN [lookups EXCEPT ![i] = [NewLookup EXCEPT !.pc = "ret"]]
                  ELSE [lookups EXCEPT ![i].pc = "ret"]
    /\ entries' = Tidy(entries, caches, prefetches, ready, done, lookups')
    /\ UNCHANGED <<cacheReqs, reqsClosed, dpc, caches, prefetches, ready, done,
                   next, panicked, ncancels, gvars, ovars>>

\* ---------------------------------------------------- cache.spawn, load
\* the miss test without the lookup in prefetches
NeedSpawn_ignorePrefetches(k) == caches[k] = Nil

\* cache.serve, case r := <-reqs: a request needs a new entry when neither
\* map holds one for its key
NeedSpawn(k) == caches[k] = Nil /\ prefetches[k] = Nil

\* cache.serve, case key := <-next: the alreadyPrefetching test
AlreadyPrefetching(k) == prefetches[k] # Nil

\* the load goroutine of cache.spawn: sc.services, sc.err = sc.load(), then
\* go sc.serve(reqs, done, next) and ready <- sc; the fields are written before
\* any other goroutine can read them, and the entry serves from now on,
\* whenever the dispatcher receives it from ready
LoadDone(e, f) ==
    /\ Live
    /\ e \in 1 .. Len(entries)
    /\ entries[e].spc = "load"
    /\ Len(ready) < MaxRequests
    /\ ready' = Append(ready, e)
    /\ entries' = [entries EXCEPT ![e].services = f.services, ![e].err = f.err,
                                  ![e].spc = "serve"]
    /\ UNCHANGED <<cacheReqs, reqsClosed, dpc, caches, prefetches, done, next,
                   lookups, panicked, ncancels, gvars, ovars>>

\* ---------------------------------------------------- serviceCache.serve
\* case <-timeout.C: done <- c, after which the goroutine only drains reqs
\* (hits, prefetch and the timers are never read again)
ServeTimeout(e) ==
    /\ Live
    /\ e \in 1 .. Len(entries)
    /\ entries[e].spc = "serve"
    /\ Len(done) < MaxRequests
    /\ done' = Append(done, e)
    /\ entries' = [entries EXCEPT ![e].spc = "drain", ![e].hits = 0,
                                  ![e].prefetch = FALSE, ![e].trig = FALSE]
    /\ UNCHANGED <<cacheReqs, reqsClosed, dpc, caches, prefetches, ready, next,
                   lookups, panicked, ncancels, gvars, ovars>>

\* case <-prefetchCheck.C (hits is only read while prefetch is false)
ServePrefetchCheck(e) ==
    /\ Live
    /\ e \in 1 .. Len(entries)
    /\ entries[e].spc = "serve"
    /\ ~entries[e].trig
    /\ ~entries[e].prefetch
    /\ LET p == entries[e].hits >= PrefetchAmount
           h == entries[e].hits - (entries[e].hits \div timeBuckets)
       IN entries' = [entries EXCEPT ![e].prefetch = p,
                                     ![e].hits = IF p THEN 0 ELSE h]
    /\ UNCHANGED <<cacheReqs, reqsClosed, dpc, caches, prefetches, ready, done,
                   next, lookups, panicked, ncancels, gvars, ovars>>

\* case <-prefetchTrigger.C (the timer fires once, and prefetch is not read
\* after it): next <- c.key, or give up when the channel is full
ServePrefetchTrigger(e) ==
    /\ Live
    /\ e \in 1 .. Len(entries)
    /\ entries[e].spc = "serve"
    /\ ~entries[e].trig
    /\ entries' = [entries EXCEPT ![e].trig = TRUE, ![e].prefetch = FALSE,
                                  ![e].hits = 0]
    /\ next' = IF entries[e].prefetch /\ Len(next) < MaxRequests
               THEN Append(next, entries[e].key)
               ELSE next
    /\ UNCHANGED <<cacheReqs, reqsClosed, dpc, caches, prefetches, ready, done,
                   lookups, panicked, ncancels, gvars, ovars>>

\* hits++, for as long as hits can still be read (before the prefetch flag is
\* set and the trigger fires), counted up to prefetchAmount
hit(e) ==
    IF entries[e].trig \/ entries[e].prefetch \/ entries[e].hits >= PrefetchAmount
    THEN entries[e].hits
    ELSE entries[e].hits + 1

\* case req, ok := <-reqs with ok: respond(req); hits++
ServeReq(e) ==
    /\ Live
    /\ e \in 1 .. Len(entries)
    /\ entries[e].spc = "serve"
    /\ entries[e].reqs # <<>>
    /\ LET r == Head(entries[e].reqs)
       IN /\ lookups' = deliver(r, response(e, remaining(e)))
          /\ entries' = [entries EXCEPT
                           ![e] = [responded(e) EXCEPT !.reqs = Tail(@),
                                                       !.hits = hit(e)]]
    /\ UNCHANGED <<cacheReqs, reqsClosed, dpc, caches, prefetches, ready, done,
                   next, panicked, ncancels, gvars, ovars>>

\* a receive that reports a closed channel while requests are still buffered
drained_atOnce(q) == TRUE

\* a receive from a closed channel yields the buffered requests first, and
\* reports !ok only when the buffer is empty
drained(q) == q = <<>>

\* case req, ok := <-reqs with !ok, or the end of for req := range reqs: the
\* goroutine returns and its local variables are gone
ServeClosed(e) ==
    /\ Live
    /\ e \in 1 .. Len(entries)
    /\ entries[e].spc \in {"serve", "drain"}
    /\ drained(entries[e].reqs)
    /\ entries[e].closed
    /\ entries' = Tidy([entries EXCEPT ![e].spc = "exit", ![e].hits = 0,
                                       ![e].prefetch = FALSE, ![e].trig = FALSE,
                                       ![e].roundRobin = 0, ![e].served = <<>>],
                       caches, prefetches, ready, done, lookups)
    /\ UNCHANGED <<cacheReqs, reqsClosed, dpc, caches, prefetches, ready, done,
                   next, lookups, panicked, ncancels, gvars, ovars>>

\* after done <- c: for req := range reqs { respond(req) }
DrainReq(e) ==
    /\ Live
    /\ e \in 1 .. Len(entries)
    /\ entries[e].spc = "drain"
    /\ entries[e].reqs # <<>>
    /\ LET r == Head(entries[e].reqs)
       IN /\ lookups' = deliver(r, response(e, remaining(e)))
          /\ entries' = Tidy([entries EXCEPT
                                ![e] = [responded(e) EXCEPT !.reqs = Tail(@)]],
                             caches, prefetches, ready, done, lookups')
    /\ UNCHANGED <<cacheReqs, reqsClosed, dpc, caches, prefetches, ready, done,
                   next, panicked, ncancels, gvars, ovars>>

\* ------------------------------------------------------------ cache.serve
\* the gauges as registered: all at 0
NoGauges == [success |-> 0, denial |-> 0, services |-> 0]

\* everything but the gauges, for UNCHANGED
GaugeRest == <<nvars, hvars, dvars, fvars, svars, pvars, lvars, mvars>>

\* helpers that set the size gauges to n instead of adding n to them
cacheAdd_set(g, e, n) ==
    IF negative(e)
    THEN [g EXCEPT !.denial = n]
    ELSE [g EXCEPT !.success = n,
                   !.services = @ + n * Len(entries[e].services)]

\* cacheSizeAddDenial(n) for a negative entry e, cacheSizeAddSuccess(n) and
\* cacheServicesAdd(n * len(sc.services)) otherwise, n being 1 or -1
cacheAdd(g, e, n) ==
    IF negative(e)
    THEN [g EXCEPT !.denial = @ + n]
    ELSE [g EXCEPT !.success = @ + n,
                   !.services = @ + n * Len(entries[e].services)]

\* the maps of the dispatcher are both empty (condition of the shutdown loop)
MapsEmpty(c, p) == \A k \in Keys : c[k] = Nil /\ p[k] = Nil

\* serviceCache.close: close(c.reqs), which panics on a closed channel
closeAll(ents, S) ==
    [ e \in 1 .. Len(ents) |->
        IF e \in S THEN [ents[e] EXCEPT !.closed = TRUE] ELSE ents[e] ]

\* case sc := <-done
DispatchDone ==
    /\ Live
    /\ dpc = "dispatch"
    /\ done # <<>>
    /\ LET sc == Head(done)
           k == entries[sc].key
       IN /\ caches' = IF caches[k] = sc THEN [caches EXCEPT ![k] = Nil] ELSE caches
          /\ gauges' = IF caches[k] = sc THEN cacheAdd(gauges, sc, -1) ELSE gauges
    /\ done' = Tail(done)
    /\ entries' = Tidy(entries, caches', prefetches, ready, done', lookups)
    /\ UNCHANGED <<cacheReqs, reqsClosed, dpc, prefetches, ready, next,
                   lookups, panicked, ncancels, gvars, GaugeRest>>

\* case key := <-next
DispatchNext(t) ==
    /\ Live
    /\ dpc = "dispatch"
    /\ next # <<>>
    /\ next' = Tail(next)
    /\ LET k == Head(next)
       IN IF AlreadyPrefetching(k)
          THEN UNCHANGED <<prefetches, entries, panicked>>
          ELSE IF Jitter(TTL) = {}
          THEN panicked' = TRUE /\ UNCHANGED <<prefetches, entries>>
          ELSE /\ Len(entries) < MaxEntries
               /\ t \in Jitter(TTL)
               /\ entries' = Append(entries, NewEntry(k, t))
               /\ prefetches' = [prefetches EXCEPT ![k] = Len(entries) + 1]
               /\ UNCHANGED panicked
    /\ UNCHANGED <<cacheReqs, reqsClosed, dpc, caches, ready, done, lookups,
                   ncancels, gvars, ovars>>

\* the ready case that leaves the entry in prefetches
forget_not(p, k) == p

\* case sc := <-ready: delete(prefetches, sc.key)
forget(p, k) == [p EXCEPT ![k] = Nil]

\* case sc := <-ready
DispatchReady ==
    /\ Live
    /\ dpc = "dispatch"
    /\ ready # <<>>
    /\ ready' = Tail(ready)
    /\ LET sc == Head(ready)
           k == entries[sc].key
           expired == caches[k]
       IN IF prefetches[k] # sc
          THEN /\ UNCHANGED <<caches, prefetches, gauges>>
               /\ IF entries[sc].closed
                  THEN panicked' = TRUE /\ UNCHANGED entries
                  ELSE /\ entries' = Tidy(closeAll(entries, {sc}), caches,
                                          prefetches, ready', done, lookups)
                       /\ UNCHANGED panicked
          ELSE /\ prefetches' = forget(prefetches, k)
               /\ caches' = [caches EXCEPT ![k] = sc]
               /\ gauges' = cacheAdd(IF expired # Nil
                                      THEN cacheAdd(gauges, expired, -1)
                                      ELSE gauges, sc, 1)
               /\ IF expired # Nil /\ entries[expired].closed
                  THEN panicked' = TRUE /\ UNCHANGED entries
                  ELSE /\ entries' = Tidy(closeAll(entries, {expired} \ {Nil}),
                                          caches', prefetches', ready', done,
                                          lookups)
                       /\ UNCHANGED panicked
    /\ UNCHANGED <<cacheReqs, reqsClosed, dpc, done, next, lookups, ncancels,
                   gvars, GaugeRest>>

\* a request channel without a bound
full_never(q) == FALSE

\* select { case sc.reqs <- r: ... default: ... }: the send cannot proceed
\* when the buffer of the channel is full
full(q) == Len(q) >= MaxRequests

\* the lookup that asks prefetches before caches
hitEntry_prefetchFirst(k) ==
    IF prefetches[k] # Nil THEN prefetches[k] ELSE caches[k]

\* case r := <-reqs: sc, hit := caches[r.key], and prefetches[r.key] only
\* when caches has no entry for the key
hitEntry(k) ==
    IF caches[k] # Nil THEN caches[k] ELSE prefetches[k]

\* case r, ok := <-reqs with ok: route the request to the entry of its key,
\* spawning one on a miss, or reject it when the entry's queue is full
DispatchReq(t) ==
    /\ Live
    /\ dpc = "dispatch"
    /\ cacheReqs # <<>>
    /\ cacheReqs' = Tail(cacheReqs)
    /\ LET r == Head(cacheReqs)
           k == lookups[r].key
           miss == NeedSpawn(k)
           sc == IF miss THEN Len(entries) + 1 ELSE hitEntry(k)
           ents == IF miss THEN Append(entries, NewEntry(k, t)) ELSE entries
       IN IF miss /\ Jitter(TTL) = {}
          THEN panicked' = TRUE /\ UNCHANGED <<prefetches, entries, lookups>>
          ELSE /\ miss => (Len(entries) < MaxEntries /\ t \in Jitter(TTL))
               /\ ~miss => t = 0
               /\ prefetches' = IF miss THEN [prefetches EXCEPT ![k] = sc]
                                ELSE prefetches
               /\ IF ents[sc].closed
                  THEN panicked' = TRUE /\ entries' = ents /\ UNCHANGED lookups
                  ELSE IF ~full(ents[sc].reqs)
                  THEN /\ entries' = [ents EXCEPT ![sc].reqs = Append(@, r)]
                       /\ UNCHANGED <<lookups, panicked>>
                  ELSE /\ lookups' = deliver(r, rejection(errTooManyRequests))
                       /\ entries' = ents
                       /\ UNCHANGED panicked
    /\ UNCHANGED <<reqsClosed, dpc, caches, ready, done, next, ncancels, gvars, ovars>>

\* cache.close, run by the finalizer of the plugin: no ServeDNS call is
\* running and none starts afterwards
CloseCache ==
    /\ Live
    /\ ~reqsClosed
    /\ \A i \in 1 .. MaxLookups : lookups[i].pc \in {"new", "ret"}
    /\ reqsClosed' = TRUE
    /\ UNCHANGED <<cacheReqs, dpc, caches, prefetches, ready, done, next,
                   entries, lookups, panicked, ncancels, gvars, ovars>>

\* case r, ok := <-reqs with !ok: break dispatchRequests, then close every
\* entry of prefetches and of caches
DispatchClosed ==
    /\ Live
    /\ dpc = "dispatch"
    /\ reqsClosed /\ cacheReqs = <<>>
    /\ LET P == { prefetches[k] : k \in Keys } \ {Nil}
           C == { caches[k] : k \in Keys } \ {Nil}
       IN IF (P \cap C # {}) \/ (\E e \in P \cup C : entries[e].closed)
          THEN panicked' = TRUE /\ UNCHANGED <<entries, dpc>>
          ELSE /\ entries' = closeAll(entries, P \cup C)
               /\ dpc' = IF MapsEmpty(caches, prefetches) THEN "returned"
                         ELSE "shutdown"
               /\ UNCHANGED panicked
    /\ UNCHANGED <<cacheReqs, reqsClosed, caches, prefetches, ready, done, next,
                   lookups, ncancels, gvars, ovars>>

\* shutdown loop, case <-next
ShutdownNext ==
    /\ Live
    /\ dpc = "shutdown"
    /\ next # <<>>
    /\ next' = Tail(next)
    /\ UNCHANGED <<cacheReqs, reqsClosed, dpc, caches, prefetches, ready, done,
                   entries, lookups, panicked, ncancels, gvars, ovars>>

\* shutdown loop, case sc := <-done
ShutdownDone ==
    /\ Live
    /\ dpc = "shutdown"
    /\ done # <<>>
    /\ done' = Tail(done)
    /\ LET sc == Head(done)
           k == entries[sc].key
       IN caches' = IF caches[k] = sc THEN [caches EXCEPT ![k] = Nil] ELSE caches
    /\ dpc' = IF MapsEmpty(caches', prefetches) THEN "returned" ELSE "shutdown"
    /\ entries' = Tidy(entries, caches', prefetches, ready, done', lookups)
    /\ UNCHANGED <<cacheReqs, reqsClosed, prefetches, ready, next,
                   lookups, panicked, ncancels, gvars, ovars>>

\* shutdown loop, case sc := <-ready
ShutdownReady ==
    /\ Live
    /\ dpc = "shutdown"
    /\ ready # <<>>
    /\ ready' = Tail(ready)
    /\ LET sc == Head(ready)
           k == entries[sc].key
       IN prefetches' = IF prefetches[k] = sc THEN [prefetches EXCEPT ![k] = Nil]
                        ELSE prefetches
    /\ dpc' = IF MapsEmpty(caches, prefetches') THEN "returned" ELSE "shutdown"
    /\ entries' = Tidy(entries, caches, prefetches', ready', done, lookups)
    /\ UNCHANGED <<cacheReqs, reqsClosed, caches, done, next, lookups,
                   panicked, ncancels, gvars, ovars>>

\* ------------------------------------------- Consul.grabCache, Consul.init
\* the datacenter /v1/agent/self reports, and the dc labels a query name may
\* carry (NoDC: the name has none; consulAgent{} holds NoDC too)
NoDC == ""
AgentDC == "dc1"
QueryDCs == {NoDC, "dc2"}

\* a goroutine in serveDNS: its position, the dc of the query name, the cache
\* and agent locals of grabCache, and the dc of the key it sent to the cache
NewQuery == [ pc |-> "new", dc |-> NoDC, cache |-> Nil, agent |-> NoDC,
              keydc |-> NoDC ]

\* grabCache: c.mutex.RLock(); cache := c.cache; agent := c.agent;
\* c.mutex.RUnlock()
GrabRead(q, d) ==
    /\ queries[q].pc = "new"
    /\ gmutex = "free"
    /\ queries' = [queries EXCEPT
                     ![q].dc = d, ![q].cache = gcache, ![q].agent = gagent,
                     ![q].pc = IF gcache = Nil THEN "nil" ELSE "grabbed"]
    /\ UNCHANGED <<gmutex, gcache, gagent, ncaches, cvars, ovars>>

\* grabCache: if cache == nil { c.mutex.Lock()
GrabLock(q) ==
    /\ queries[q].pc = "nil"
    /\ gmutex = "free"
    /\ gmutex' = "w"
    /\ queries' = [queries EXCEPT ![q].pc = "locked"]
    /\ UNCHANGED <<gcache, gagent, ncaches, cvars, ovars>>

\* grabCache under the lock: if cache = c.cache; cache == nil { ... }; the
\* locals after the statement when c.cache is not nil
reuse(q) == [queries[q] EXCEPT !.cache = gcache, !.pc = "grabbed"]

\* the test under the lock on the value read before the lock was taken
uninitialised_stale(q) == queries[q].cache = Nil

\* grabCache under the lock: if cache = c.cache; cache == nil, the field read
\* again by goroutine q
uninitialised(q) == gcache = Nil

\* grabCache under the lock, c.cache is nil: cache, agent, err = c.init(ctx);
\* on success c.cache = cache; c.agent = agent (init starts one dispatcher
\* goroutine per cache it makes); c.mutex.Unlock(). On error serveDNS returns
\* SERVFAIL.
GrabInit(q, ok) ==
    /\ queries[q].pc = "locked"
    /\ uninitialised(q)
    /\ gmutex' = "free"
    /\ IF ok
       THEN /\ ncaches' = ncaches + 1
            /\ gcache' = ncaches + 1
            /\ gagent' = AgentDC
            /\ queries' = [queries EXCEPT ![q].cache = ncaches + 1,
                                          ![q].agent = AgentDC,
                                          ![q].pc = "grabbed"]
       ELSE /\ queries' = [queries EXCEPT ![q].pc = "failed"]
            /\ UNCHANGED <<gcache, gagent, ncaches>>
    /\ UNCHANGED <<cvars, ovars>>

\* grabCache under the lock, c.cache is not nil; c.mutex.Unlock()
GrabReuse(q) ==
    /\ queries[q].pc = "locked"
    /\ ~uninitialised(q)
    /\ gmutex' = "free"
    /\ queries' = [queries EXCEPT ![q] = reuse(q)]
    /\ UNCHANGED <<gcache, gagent, ncaches, cvars, ovars>>

\* serveDNS: if len(dc) == 0 { dc = agent.Config.Datacenter }, the dc of the key
keyDC(dc, agent) == IF dc = NoDC THEN agent ELSE dc

\* serveDNS: the key is built and the request is sent on cache.reqs
SendKey(q) ==
    /\ queries[q].pc = "grabbed"
    /\ queries' = [queries EXCEPT
                     ![q].keydc = keyDC(queries[q].dc, queries[q].agent),
                     ![q].pc = "sent"]
    /\ UNCHANGED <<gmutex, gcache, gagent, ncaches, cvars, ovars>>

GrabNext ==
    \/ \E q \in 1 .. MaxQueries, d \in QueryDCs : GrabRead(q, d)
    \/ \E q \in 1 .. MaxQueries : GrabLock(q)
    \/ \E q \in 1 .. MaxQueries, ok \in BOOLEAN : GrabInit(q, ok)
    \/ \E q \in 1 .. MaxQueries : GrabReuse(q)
    \/ \E q \in 1 .. MaxQueries : SendKey(q)

\* ------------------------------------------- splitName, serveDNS routing
\* a query name is the sequence of its labels, the final dot trimmed
\* (splitName: strings.TrimSuffix(s, ".")); a tag or a dc that keeps several
\* labels is the sequence of them
Labels == {"a", "_a", "_tcp", "service", "query", "consul", "other"}
Names == UNION { [1 .. n -> Labels] : n \in 0 .. MaxLabels }
QTypes == {"A", "AAAA", "ANY", "SRV", "TXT"}
NotRouted == [rcode |-> "none", sent |-> FALSE]

\* strings.HasPrefix(l, "_") on a label
HasUnderscore(l) == l \in {"_a", "_tcp"}

\* strings.TrimPrefix(l, "_") on a label
TrimUnderscore(l) ==
    IF l = "_a" THEN "a" ELSE IF l = "_tcp" THEN "tcp" ELSE l

\* split: the token before the first dot ("" when s is empty)
splitToken(s) == IF s = <<>> THEN "" ELSE Head(s)

\* split: what remains after the first dot
splitRemain(s) == IF s = <<>> THEN <<>> ELSE Tail(s)

\* strings.Index(s, "." + sep + "."): the place of the first label sep that
\* has a label before it and a label after it, 0 when there is none
IndexSep(s, sep) ==
    LET I == { i \in 2 .. (Len(s) - 1) : s[i] = sep }
    IN IF I = {} THEN 0 ELSE CHOOSE i \in I : \A j \in I : i <= j

\* the result of splitName when nothing is recognised
NoName == [name |-> "", tag |-> <<>>, typ |-> "", dc |-> <<>>, domain |-> ""]

\* splitNameDefault: ".service." is looked for first, then ".query."
splitNameDefault(s) ==
    LET sep == IF IndexSep(s, "service") # 0 THEN "service"
               ELSE IF IndexSep(s, "query") # 0 THEN "query" ELSE ""
        i == IndexSep(s, sep)
        head == SubSeq(s, 1, i - 1)
        rest == SubSeq(s, i + 1, Len(s))
    IN IF sep = "" THEN NoName
       ELSE [ name |-> head[Len(head)], tag |-> SubSeq(head, 1, Len(head) - 1),
              typ |-> sep,
              domain |-> rest[Len(rest)], dc |-> SubSeq(rest, 1, Len(rest) - 1) ]

\* splitNameRFC2782
splitNameRFC2782(s) ==
    LET name == splitToken(s)
        s1 == splitRemain(s)
        tag == splitToken(s1)
        s2 == splitRemain(s1)
        d1 == splitToken(s2)
        s3 == splitRemain(s2)
        \* if domain, s = split(s); domain == "service"
        d2 == IF d1 = "service" THEN splitToken(s3) ELSE d1
        s4 == IF d1 = "service" THEN splitRemain(s3) ELSE s3
        \* if domain, s = split(s); len(s) != 0
        more == d1 = "service" /\ s4 # <<>>
        dc == IF more THEN <<d2>> ELSE <<>>
        d3 == IF more THEN splitToken(s4) ELSE d2
        s5 == IF more THEN splitRemain(s4) ELSE s4
    IN IF more /\ s5 # <<>>
       THEN [name |-> "", tag |-> <<tag>>, typ |-> "", dc |-> dc, domain |-> d3]
       ELSE IF tag # "_tcp" /\ ~HasUnderscore(tag)
       THEN [name |-> "", tag |-> <<tag>>, typ |-> "", dc |-> dc, domain |-> d3]
       ELSE [ name |-> TrimUnderscore(name),
              tag |-> IF tag = "_tcp" THEN <<>> ELSE <<TrimUnderscore(tag)>>,
              typ |-> "service", dc |-> dc, domain |-> d3 ]

\* splitName
splitName(s) ==
    IF s # <<>> /\ HasUnderscore(s[1]) THEN splitNameRFC2782(s)
    ELSE splitNameDefault(s)

\* route with the query type kept in the key
route_keepType(s, t, grabbed) ==
    LET n == splitName(s)
    IN IF ~grabbed THEN [rcode |-> "SERVFAIL", sent |-> FALSE]
       ELSE IF n.name = "" THEN [rcode |-> "NXDOMAIN", sent |-> FALSE]
       ELSE IF n.domain # "consul" THEN [rcode |-> "REFUSED", sent |-> FALSE]
       ELSE IF n.typ # "service" THEN [rcode |-> "NOTIMPL", sent |-> FALSE]
       ELSE IF t \notin {"A", "AAAA", "ANY", "SRV"}
       THEN [rcode |-> "NOTIMPL", sent |-> FALSE]
       ELSE [ rcode |-> "pending", sent |-> TRUE,
              key |-> [ name |-> n.name, tag |-> n.tag,
                        dc |-> IF n.dc = <<>> THEN <<AgentDC>> ELSE n.dc,
                        qtype |-> t ] ]

\* serveDNS up to its first select: the rcode of an early return, or the
\* request sent to the cache (the dc defaults to the agent's)
route(s, t, grabbed) ==
    LET n == splitName(s)
    IN IF ~grabbed THEN [rcode |-> "SERVFAIL", sent |-> FALSE]
       ELSE IF n.name = "" THEN [rcode |-> "NXDOMAIN", sent |-> FALSE]
       ELSE IF n.domain # "consul" THEN [rcode |-> "REFUSED", sent |-> FALSE]
       ELSE IF n.typ # "service" THEN [rcode |-> "NOTIMPL", sent |-> FALSE]
       ELSE IF t \notin {"A", "AAAA", "ANY", "SRV"}
       THEN [rcode |-> "NOTIMPL", sent |-> FALSE]
       ELSE [ rcode |-> "pending", sent |-> TRUE,
              key |-> [ name |-> n.name, tag |-> n.tag,
                        dc |-> IF n.dc = <<>> THEN <<AgentDC>> ELSE n.dc,
                        qtype |-> IF t = "SRV" THEN "ANY" ELSE t ] ]

\* a ServeDNS call runs until it returns early or sends its request
ServeName ==
    /\ routed = NotRouted
    /\ routed' = route(qname, qtype, qgrab)
    /\ UNCHANGED <<qname, qtype, qgrab, cvars, gvars, xvars, hvars, dvars, fvars, svars>>

NameNext == ServeName

\* ------------------------------------------------ serviceResponse.header
\* a time.Duration is counted in quarters of a second; a uint32 is the pair
\* <<high, low>> of its 16-bit halves
Quarters == 4
Half16 == 65536
NoHeader == [Class |-> "none", Ttl |-> <<0, 0>>]

\* time.Second in nanoseconds, 1000000000 = SecondHigh * 2^16 + SecondLow
SecondHigh == 15258
SecondLow == 51712

\* Duration.Round(time.Second): the nearest number of seconds, halves up
RoundSeconds(d) == (d + (Quarters \div 2)) \div Quarters

\* uint32(d) of a duration of n seconds: the low 32 bits of n * 1000000000
Uint32OfSeconds(n) ==
    LET low == n * SecondLow
    IN << (n * SecondHigh + (low \div Half16)) % Half16, low % Half16 >>

\* serviceResponse.header
header(d) == [Class |-> "IN", Ttl |-> Uint32OfSeconds(RoundSeconds(d))]

\* serviceResponse.A, AAAA, SRV: the header of a record of the reply
BuildHeader ==
    /\ hdr = NoHeader
    /\ hdr' = header(rttl)
    /\ UNCHANGED <<rttl, cvars, gvars, xvars, nvars, dvars, fvars, svars>>

HeaderNext == BuildHeader

\* ------------------------------------------------- dogstatsd: makeMetrics
\* a float64 rate is the fraction <<numerator, denominator>>; the zero value
\* of the field is 0
ZeroRate == <<0, 1>>

\* the zero value of metric, what state[k] gives for a key it does not hold
ZeroMetric ==
    [kind |-> "", name |-> "", value |-> 0, rate |-> ZeroRate, tags |-> <<>>,
     index |-> 0, count |-> 0, version |-> 0]

\* a - b on uint64: below zero the difference wraps around to 2^64 + (a - b).
\* The model wraps at WordModulus in the place of 2^64: its counts stay far
\* below either, and a difference below zero is a value just under the
\* modulus in both
Sub64(a, b) == (a - b) % WordModulus

\* makeMetrics, histogram: the count of one bucket is its cumulative count
\* minus the cumulative count of the bucket before it
bucketCount_cumulative(cct, acc) == cct

bucketCount(cct, acc) == Sub64(cct, acc)

\* makeMetrics, case dto.MetricType_COUNTER
makeCounter(name, value) ==
    <<[ZeroMetric EXCEPT !.kind = "c", !.name = name, !.value = value]>>

\* makeMetrics, case dto.MetricType_GAUGE
makeGauge(name, value) ==
    <<[ZeroMetric EXCEPT !.kind = "g", !.name = name, !.value = value]>>

\* makeMetrics, case dto.MetricType_HISTOGRAM: one metric per bucket, in the
\* order of the buckets (index counts from 0); the value is rand(min, max), a
\* random point of the bucket
makeHistogram(name, buckets) ==
    [i \in 1..Len(buckets) |->
        [ZeroMetric EXCEPT
            !.kind = "h", !.name = name, !.value = <<"rand", i - 1>>,
            !.index = i - 1,
            !.count = bucketCount(buckets[i], IF i = 1 THEN 0 ELSE buckets[i - 1]),
            !.version = buckets[i]]]

\* makeMetrics: the metrics of one series of a family
makeMetrics(f) ==
    CASE f.type = "COUNTER" -> makeCounter(f.name, f.value)
      [] f.type = "GAUGE" -> makeGauge(f.name, f.value)
      [] f.type = "HISTOGRAM" -> makeHistogram(f.name, f.buckets)
      [] OTHER -> <<>>

\* ------------------------------------------------- dogstatsd: state.observe
\* the key of a metric in the state map
keyOf(m) == <<m.kind, m.name, m.tags, m.index>>

\* v, ok := s[k]
stateGet(s, k) == IF k \in DOMAIN s THEN s[k] ELSE ZeroMetric

\* s[k] = v
statePut(s, k, v) == [x \in DOMAIN s \cup {k} |-> IF x = k THEN v ELSE s[x]]

\* observe, case counter: the delta since the stored value, the value itself
\* when the delta is negative; the stored value is replaced when the delta is
\* not zero
observeCounter(v, m) ==
    LET d0 == m.value - v.value
        delta == IF d0 < 0 THEN m.value ELSE d0
        ok == delta # 0
    IN  [v |-> IF ok THEN m ELSE v,
         m |-> IF ok THEN [m EXCEPT !.value = delta] ELSE m,
         ok |-> ok]

\* a gauge that is reported when its value changed only
observeGauge_onChange(v, m) == [v |-> m, m |-> m, ok |-> m.value # v.value]

\* observe, case gauge
observeGauge(v, m) == [v |-> m, m |-> m, ok |-> TRUE]

\* a sample that stands for one observation whatever the count is
rateOf_one(count) == <<1, 1>>

\* observe, case histogram: 1 / float64(count)
rateOf(count) == <<1, count>>

\* observe, case histogram
observeHistogram(v, m) ==
    LET count == Sub64(m.count, v.count)
        ok == v.version # m.version /\ count # 0
        mm == IF ok THEN [m EXCEPT !.rate = rateOf(count)] ELSE m
    IN  [v |-> IF ok THEN mm ELSE v, m |-> mm, ok |-> ok]

\* state.observe: the state after the call, the metric returned and ok
observe(s, m) ==
    LET k == keyOf(m)
        v == stateGet(s, k)
        r == CASE m.kind = "c" -> observeCounter(v, m)
               [] m.kind = "g" -> observeGauge(v, m)
               [] m.kind = "h" -> observeHistogram(v, m)
               [] OTHER -> [v |-> v, m |-> m, ok |-> FALSE]
    IN  [s |-> statePut(s, k, r.v), m |-> r.m, ok |-> r.ok]

\* collectMetrics, the loop over makeMetrics(f, m, rand): every metric is
\* observed in order, those observed with ok are appended to metrics
RECURSIVE observeAll(_, _, _)
observeAll(s, ms, out) ==
    IF ms = <<>> THEN [s |-> s, metrics |-> out]
    ELSE LET r == observe(s, Head(ms))
         IN  observeAll(r.s, Tail(ms), IF r.ok THEN Append(out, r.m) ELSE out)

\* ------------------------------------------------- dogstatsd: counterStore
\* makeCounterStore, and the fresh map top hands to swap
makeCounterStore == << >>

\* counterStore.incr: c.index[name]++ (a missing key counts from 0)
incr(index, name) ==
    [k \in DOMAIN index \cup {name} |->
        IF k = name THEN (IF k \in DOMAIN index THEN index[k] ELSE 0) + 1
        ELSE index[k]]

\* counterStore.swap: the map handed in is installed, the old one is returned
swap(index, m) == [index |-> m, old |-> index]

\* top without the swap: the counts are left in the store
afterTop_keep(index) == index

\* counterStore.top: c.index after the call
afterTop(index) == swap(index, makeCounterStore).index

\* counterEntriesByValue.Less
Less(a, b) == a.value < b.value

\* the orders sort.Sort(sort.Reverse(counterEntriesByValue(count))) may leave
\* the entries of index in: no entry is less than a later one (the map is
\* ranged over in any order and the sort is not stable, so entries of equal
\* value come in any order)
sortedEntries(index) ==
    LET n == Cardinality(DOMAIN index)
    IN  {s \in [1..n -> [key : DOMAIN index, value : {index[k] : k \in DOMAIN index}]] :
            /\ \A i \in 1..n : s[i].value = index[s[i].key]
            /\ \A i, j \in 1..n : i # j => s[i].key # s[j].key
            /\ \A i, j \in 1..n : i < j => ~Less(s[i], s[j])}

\* top that keeps the whole sorted slice
truncate_none(count, n) == count

\* counterStore.top: if n < len(count) { count = count[:n] }
truncate(count, n) == IF n < Len(count) THEN SubSeq(count, 1, n) ELSE count

\* counterStore.top: the slices the call may return
top(index, n) == {truncate(s, n) : s \in sortedEntries(swap(index, makeCounterStore).old)}

\* counterEntry.metric
entryMetric(c, name, tag) ==
    [ZeroMetric EXCEPT !.kind = "c", !.name = name, !.value = c.value,
                       !.tags = <<tag, c.key>>]

\* ------------------------------------------------ dogstatsd: flushMetrics
\* the sum of the lengths of the lines a datagram holds
RECURSIVE Sum(_)
Sum(q) == IF q = <<>> THEN 0 ELSE Head(q) + Sum(Tail(q))

\* a datagram is the sequence of the places, in metrics, of the lines it
\* holds; its length in bytes
dgramLen(ls, out) == Sum([j \in 1..Len(out) |-> ls[out[j]]])

\* the size test that lets every line through
tooLong_never(n, size) == FALSE

\* if len(buf) > bufferSize { log; continue }
tooLong(n, size) == n > size

\* the test of the pending datagram that never asks for a write
overflows_never(outLen, n, size) == FALSE

\* if (len(out) + len(buf)) > bufferSize
overflows(outLen, n, size) == outLen + n > size

\* a line that is dropped and takes the pending datagram with it
afterDrop_reset(out) == <<>>

\* continue: the pending datagram after a line was dropped
afterDrop(out) == out

\* a datagram that is written and kept as the pending one
afterWrite_keep(out) == out

\* out = out[:0]: the pending datagram after it was written
afterWrite(out) == <<>>

\* the loop of flushMetrics from metric i on: out is the pending datagram,
\* writes the datagrams conn.Write has sent, dropped the places of the lines
\* that were too long; the failAt-th call of conn.Write returns an error and
\* sends nothing (0: no call fails)
RECURSIVE flushLoop(_, _, _, _, _, _, _)
flushLoop(ls, size, failAt, i, out, writes, dropped) ==
    IF i > Len(ls)
    THEN IF out # <<>>
         THEN IF Len(writes) + 1 = failAt
              THEN [writes |-> writes, dropped |-> dropped, err |-> "write"]
              ELSE [writes |-> Append(writes, out), dropped |-> dropped,
                    err |-> "none"]
         ELSE [writes |-> writes, dropped |-> dropped, err |-> "none"]
    ELSE IF tooLong(ls[i], size)
    THEN flushLoop(ls, size, failAt, i + 1, afterDrop(out), writes,
                   dropped \cup {i})
    ELSE IF overflows(dgramLen(ls, out), ls[i], size)
    THEN IF Len(writes) + 1 = failAt
         THEN [writes |-> writes, dropped |-> dropped, err |-> "write"]
         ELSE flushLoop(ls, size, failAt, i + 1, Append(afterWrite(out), i),
                        Append(writes, out), dropped)
    ELSE flushLoop(ls, size, failAt, i + 1, Append(out, i), writes,
                   dropped)

\* flushMetrics: nothing is written when dial fails
flushMetrics(ls, size, dialOk, failAt) ==
    IF ~dialOk THEN [writes |-> <<>>, dropped |-> {}, err |-> "dial"]
    ELSE flushLoop(ls, size, failAt, 1, <<>>, <<>>, {})

\* ------------------------------------------------- dogstatsd: appendMetric
\* strconv.AppendFloat(b, x, 'g', -1, 64): the number of bytes appended. The
\* whole numbers of the model are below 10 and take one byte, a random point
\* of a bucket takes RandLen bytes
valueLen(m) == IF m.kind = "h" THEN RandLen ELSE 1

\* the bytes of the rate 1/n: "0.5", "0.25", "0.2", "0.125", 18 bytes
\* otherwise ("0.3333333333333333")
rateLen(r) ==
    CASE r[2] \in {2, 5} -> 3
      [] r[2] = 4 -> 4
      [] r[2] = 8 -> 5
      [] OTHER -> 18

\* appendMetric: the length of the line of m: name ':' value '|' kind, then
\* "|@" rate unless the rate is 0 or 1, then "|#" tags unless empty, then '\n'
lineLen(m) ==
    Len(m.name) + 1 + valueLen(m) + 2
    + (IF m.rate # ZeroRate /\ m.rate # <<1, 1>> THEN 2 + rateLen(m.rate) ELSE 0)
    + (IF m.tags # <<>> THEN 2 + Len(m.tags[1]) + 1 + Len(m.tags[2]) ELSE 0)
    + 1

\* ------------------------------------------- dogstatsd: run, reportMetrics
\* nothing was gathered yet
NoScrape == [c |-> "none"]

\* no flush was made yet
NotFlushed == [err |-> "not flushed"]

\* what d.Reg.Gather() may return: the counter series holds any value (a
\* collector registered anew counts from 0 again), the gauge any value, and
\* the histogram the cumulative counts of its buckets, which only grow. The
\* series are neither go nor process metrics and carry no zone label: the
\* tests of collectMetrics on the family name and matchZones let them through.
Gathers(before) ==
    {r \in [c : 0..MaxValue, g : 0..MaxGauge,
            h : [1..NBuckets -> 0..MaxObs]] :
        /\ \A i \in 1..(NBuckets - 1) : r.h[i] <= r.h[i + 1]
        /\ before # NoScrape =>
              /\ r.h[1] >= before.h[1]
              /\ \A i \in 2..NBuckets :
                    r.h[i] - r.h[i - 1] >= before.h[i] - before.h[i - 1]}

\* the families Gather returns, sorted by name, one series each
families(r) ==
    <<[type |-> "COUNTER", name |-> "counter1", value |-> r.c],
      [type |-> "GAUGE", name |-> "gauge1", value |-> r.g],
      [type |-> "HISTOGRAM", name |-> "histogram1", buckets |-> r.h]>>

\* collectMetrics: the metrics of every family, in order
RECURSIVE familyMetrics(_)
familyMetrics(fs) ==
    IF fs = <<>> THEN <<>> ELSE makeMetrics(Head(fs)) \o familyMetrics(Tail(fs))

\* collectMetrics: for _, c := range store.top(10) { metrics = append(...) }
topMetrics(cs, name, tag) ==
    [i \in 1..Len(cs) |-> entryMetric(cs[i], name, tag)]

\* reportMetrics after flushMetrics returned err: the error is logged, and
\* run goes on to its select; a loop that gives up on an error
afterReport_giveUp(err) == IF err = "none" THEN "select" ELSE "returned"

afterReport(err) == "select"

\* the names a query asks for and the images the docker cache knows for the
\* address of the client
QNames == {"x."}
Images == {<<>>, <<"img">>}

\* d.clients.incr(a); d.exchanges.incr(a + "/" + name) for every image a
RECURSIVE incrClients(_, _, _)
incrClients(st, imgs, name) ==
    IF imgs = <<>> THEN st
    ELSE incrClients([st EXCEPT !.clients = incr(@, Head(imgs)),
                                !.exchanges = incr(@, Head(imgs) \o "/" \o name)],
                     Tail(imgs), name)

\* Dogstatsd.ServeDNS: the counters of the client images, of the exchanges
\* and of the name are incremented
DogServe ==
    /\ nserves < MaxServes
    /\ \E name \in QNames, imgs \in Images :
         stores' = [incrClients(stores, imgs, name) EXCEPT !.names = incr(@, name)]
    /\ nserves' = nserves + 1
    /\ UNCHANGED <<last, prev, dstate, metrics, dloop, nreports, fvars, svars,
                   cvars, gvars, xvars, nvars, hvars>>

\* run: d.reportMetrics(state) when Gather returns an error: the error is
\* logged, nothing is observed, read from the stores or flushed
ReportGatherError ==
    /\ dloop = "report"
    /\ nreports < MaxReports
    /\ nreports' = nreports + 1
    /\ metrics' = <<>>
    /\ lines' = <<>>
    /\ flushed' = [err |-> "gather"]
    /\ dloop' = "select"
    /\ UNCHANGED <<last, prev, dstate, stores, nserves, bufferSize, svars,
                   cvars, gvars, xvars, nvars, hvars>>

\* run: d.reportMetrics(state): collectMetrics observes every metric of the
\* registry and reads the three stores, flushMetrics sends the lines; dial
\* or the failAt-th write may fail
Report ==
    /\ dloop = "report"
    /\ nreports < MaxReports
    /\ \E r \in Gathers(last), dialOk \in BOOLEAN, failAt \in 0..1,
          tc \in top(stores.clients, TopN), tn \in top(stores.names, TopN),
          te \in top(stores.exchanges, TopN) :
         LET obs == observeAll(dstate, familyMetrics(families(r)), <<>>)
             ms == obs.metrics
                   \o topMetrics(tc, "coredns.dns.clients.top10", "client")
                   \o topMetrics(tn, "coredns.dns.names.top10", "name")
                   \o topMetrics(te, "coredns.dns.exchanges.top10", "exchange")
             ls == [i \in 1..Len(ms) |-> lineLen(ms[i])]
             res == flushMetrics(ls, bufferSize, dialOk, failAt)
         IN  /\ dstate' = obs.s
             /\ metrics' = ms
             /\ stores' = [clients |-> afterTop(stores.clients),
                           names |-> afterTop(stores.names),
                           exchanges |-> afterTop(stores.exchanges)]
             /\ prev' = last
             /\ last' = r
             /\ lines' = ls
             /\ flushed' = res
             /\ dloop' = afterReport(res.err)
    /\ nreports' = nreports + 1
    /\ UNCHANGED <<nserves, bufferSize, svars, cvars, gvars, xvars, nvars, hvars>>

\* run: select, case <-ticker.C
TickerFires ==
    /\ dloop = "select"
    /\ dloop' = "report"
    /\ UNCHANGED <<last, prev, dstate, metrics, nreports, stores, nserves,
                   fvars, svars, cvars, gvars, xvars, nvars, hvars>>

\* run: select, case <-ctx.Done(): return
CtxDone ==
    /\ dloop = "select"
    /\ dloop' = "returned"
    /\ UNCHANGED <<last, prev, dstate, metrics, nreports, stores, nserves,
                   fvars, svars, cvars, gvars, xvars, nvars, hvars>>

DogNext ==
    \/ DogServe
    \/ ReportGatherError
    \/ Report
    \/ TickerFires
    \/ CtxDone

\* ------------------------------------------------- flushMetrics on its own
\* flushMetrics is handed metrics whose lines have the lengths of lines, dial
\* returned bufferSize or failed, and the failAt-th write may fail
Flush ==
    /\ flushed = NotFlushed
    /\ \E dialOk \in BOOLEAN, failAt \in 0..Len(lines) :
         flushed' = flushMetrics(lines, bufferSize, dialOk, failAt)
    /\ UNCHANGED <<lines, bufferSize, dvars, svars, cvars, gvars, xvars, nvars, hvars>>

FlushNext == Flush

\* ------------------------------------------------- counterStore on its own
\* the keys the store is incremented with
StoreKeys == {"a", "b", "c"}

\* c.incr(name)
StoreIncr ==
    /\ nincrs < MaxIncrs
    /\ \E k \in StoreKeys :
         /\ store' = incr(store, k)
         /\ incrs' = [incrs EXCEPT ![k] = @ + 1]
    /\ nincrs' = nincrs + 1
    /\ UNCHANGED <<tops, dvars, fvars, cvars, gvars, xvars, nvars, hvars>>

\* c.top(n)
StoreTop ==
    /\ Len(tops) < MaxTops
    /\ \E n \in 0..MaxTopN :
         \E t \in top(store, n) :
            tops' = Append(tops, [n |-> n, count |-> t, incrs |-> incrs])
    /\ store' = afterTop(store)
    /\ incrs' = [k \in StoreKeys |-> 0]
    /\ UNCHANGED <<nincrs, dvars, fvars, cvars, gvars, xvars, nvars, hvars>>

StoreNext == StoreIncr \/ StoreTop

\* ------------------------------------- collectMetrics: the family filters
\* a family name is the sequence of the parts its underscores separate
Namespace == "coredns"

NameParts == {"coredns", "go", "process", "dns"}

\* no function is being called by itself
NoArg == [op |-> "none"]
NoRes == [op |-> "none"]

\* makeName: strings.HasPrefix(s, plugin.Namespace + "_")
hasNamespace(s) == Len(s) >= 2 /\ s[1] = Namespace

\* makeName
makeName(s) == IF ~hasNamespace(s) THEN <<Namespace>> \o s ELSE s

\* isGoMetric: strings.HasPrefix(name, plugin.Namespace + "_go_")
isGoMetric(s) == Len(s) >= 3 /\ s[1] = Namespace /\ s[2] = "go"

\* isProcessMetric: strings.HasPrefix(name, plugin.Namespace + "_process_")
isProcessMetric(s) == Len(s) >= 3 /\ s[1] = Namespace /\ s[2] = "process"

\* appendName: every underscore is written as a period
appendName(s) == [sep |-> ".", parts |-> s]

\* collectMetrics, the loop over the families for one family: the family is
\* skipped, or its metrics are made under makeName(*f.Name) and written by
\* appendMetric
collectFamily(name, enableGo, enableProcess) ==
    IF ~enableGo /\ isGoMetric(name) THEN [op |-> "skipped"]
    ELSE IF ~enableProcess /\ isProcessMetric(name) THEN [op |-> "skipped"]
    ELSE [op |-> "emitted", name |-> appendName(makeName(name))]

\* collectMetrics gathers one family and flushes it
CollectFamily ==
    /\ arg.op = "collect" /\ ret = NoRes
    /\ ret' = collectFamily(arg.name, arg.go, arg.process)
    /\ UNCHANGED <<arg, cvars, gvars, nvars, hvars, dvars, fvars, svars, lvars, mvars,
                   uvars>>

FilterNext == CollectFamily

\* -------------------------------------------- the timers of serviceCache
\* everything but the call of a function by itself, for UNCHANGED
PureRest == <<cvars, gvars, nvars, hvars, dvars, fvars, svars, lvars, mvars, uvars>>

\* prefetch percentages the setup accepts
Percentages == {10, 50, 90}

\* the lead of the prefetch with a tenth of the percentage
prefetchLead_thousandth(ttl, pct) == (ttl * pct) \div 1000

\* serve: (c.ttl * time.Duration(c.prefetchPercentage)) / 100
prefetchLead(ttl, pct) == (ttl * pct) \div 100

\* serve: deadline := time.Now().Add(c.ttl), timeout after c.ttl, and
\* prefetchTrigger after c.ttl less the lead; c.ttl is what spawn made of
\* the configured ttl
serveTimers(now, ttl, pct) ==
    [op |-> "serving", ttl |-> ttl, deadline |-> now + ttl,
     trigger |-> now + ttl - prefetchLead(ttl, pct)]

\* parseTTL: the setup refuses a ttl below 0 and takes any other
ttlAccepted(ttl) == ~(ttl < 0)

\* the setup parses the ttl; at the first miss spawn makes the serviceCache
\* (rand.Int63n panics when its argument is not positive), and serve starts
\* its timers
SpawnServe ==
    /\ arg.op = "spawn" /\ ret = NoRes
    /\ IF ~ttlAccepted(arg.ttl)
       THEN ret' = [op |-> "rejected"]
       ELSE IF Jitter(arg.ttl) = {}
       THEN ret' = [op |-> "panic"]
       ELSE \E t \in Jitter(arg.ttl) : ret' = serveTimers(arg.now, t, arg.pct)
    /\ UNCHANGED <<arg, PureRest>>

TimerNext == SpawnServe

\* ------------------------------- collectMetrics on a histogram by itself
\* the cumulative bucket counts a gather may return for the histogram: they
\* grow from bucket to bucket; from one gather to the next they grow too,
\* unless the collector was registered anew and counts from 0 again
Hists ==
    {h \in [1..NBuckets -> 0..MaxObs] :
        \A i \in 1..(NBuckets - 1) : h[i] <= h[i + 1]}

\* collectMetrics at every gather of hs in turn, on the one state of run:
\* the metrics each call collects for the histogram
RECURSIVE observeScrapes(_, _, _)
observeScrapes(s, hs, out) ==
    IF hs = <<>> THEN out
    ELSE LET obs == observeAll(s, makeHistogram("histogram1", Head(hs)), <<>>)
         IN  observeScrapes(obs.s, Tail(hs), Append(out, obs.metrics))

\* run reports the gathers one after the other
ObserveScrapes ==
    /\ arg.op = "scrapes" /\ ret = NoRes
    /\ ret' = [op |-> "observed", flushes |-> observeScrapes(<<>>, arg.hs, <<>>)]
    /\ UNCHANGED <<arg, PureRest>>

ScrapeNext == ObserveScrapes

\* ------------------------------------- serveDNS: the key and the answer
\* the names asked for: a service, another one, the first with a tag, the
\* first in a named datacenter and in the datacenter of the agent
AskedNames ==
    { <<"a", "service", "consul">>, <<"other", "service", "consul">>,
      <<"a", "a", "service", "consul">>, <<"a", "service", "other", "consul">>,
      <<"a", "service", AgentDC, "consul">> }

\* the endpoints load returns for every service: one IPv4, one IPv6
Endpoints == << [addr |-> "v4", node |-> "n1"], [addr |-> "v6", node |-> "n2"] >>

\* isIPv6
isIPv6(srv) == srv.addr = "v6"

\* serviceResponse.ANY: the type of the record it makes
anyType(srv) == IF isIPv6(srv) THEN "AAAA" ELSE "A"

\* serveDNS: the last switch, the types of the answer and the extra record
answerTypes(t, srv) ==
    IF t = "A" THEN [answer |-> "A", extra |-> "none"]
    ELSE IF t = "AAAA" THEN [answer |-> "AAAA", extra |-> "none"]
    ELSE IF t = "ANY" THEN [answer |-> anyType(srv), extra |-> "none"]
    ELSE [answer |-> "SRV", extra |-> anyType(srv)]

\* the queries served so far: the keys fetched upstream, in order, and the
\* answers
NothingServed == [op |-> "served", fetches |-> <<>>, answers |-> <<>>]
servedSoFar == IF ret = NoRes THEN NothingServed ELSE ret

\* number of answers among a that came from the entry of key k
hitsOf(a, k) == Cardinality({ i \in 1 .. Len(a) : a[i].sent /\ a[i].key = k })

\* one call of serveDNS, the calls before it answered: the request goes to
\* the entry of its key, which cache.serve spawns (one fetch) when the key
\* has none, and the entry answers with get(), round-robin
serveQuery(q, sofar) ==
    LET r == route(q.name, q.type, TRUE)
    IN IF ~r.sent
       THEN [sofar EXCEPT !.answers = Append(@, [sent |-> FALSE, rcode |-> r.rcode])]
       ELSE LET miss == \A i \in 1 .. Len(sofar.fetches) : sofar.fetches[i] # r.key
                index == hitsOf(sofar.answers, r.key) % Len(Endpoints)
                srv == Endpoints[index + 1]
            IN [sofar EXCEPT
                  !.fetches = IF miss THEN Append(@, r.key) ELSE @,
                  !.answers = Append(@, [sent |-> TRUE, rcode |-> "NOERROR",
                                         key |-> r.key, index |-> index,
                                         types |-> answerTypes(q.type, srv)])]

ServeQuery ==
    /\ arg.op = "queries"
    /\ Len(servedSoFar.answers) < Len(arg.qs)
    /\ ret' = serveQuery(arg.qs[Len(servedSoFar.answers) + 1], servedSoFar)
    /\ UNCHANGED <<arg, PureRest>>

KeyNext == ServeQuery

\* ------------------------------------- counterStore under concurrent calls
\* a goroutine that is in no call
IdleThread == [pc |-> "idle", key |-> "", val |-> 0, snap |-> << >>, n |-> 0]

\* everything but the store and its goroutines, for UNCHANGED
StoreRest == <<cvars, gvars, nvars, hvars, dvars, fvars, pvars, lvars, uvars>>

\* a Lock that never waits
lockFree_always(m) == TRUE

\* sync.Mutex.Lock returns when no goroutine holds the mutex
lockFree(m) == m = Nil

\* a goroutine calls c.incr(name) or c.top(n)
ThreadCall(t) ==
    /\ threads[t].pc = "idle"
    /\ \/ /\ nincrs < MaxIncrs
          /\ nincrs' = nincrs + 1
          /\ \E k \in StoreKeys :
               threads' = [threads EXCEPT ![t] = [IdleThread EXCEPT !.pc = "lock", !.key = k]]
       \/ /\ Len(tops) + Cardinality({u \in 1..MaxThreads : threads[u].n > 0}) < MaxTops
          /\ UNCHANGED nincrs
          /\ \E n \in 1..MaxTopN :
               threads' = [threads EXCEPT ![t] = [IdleThread EXCEPT !.pc = "tlock", !.n = n]]
    /\ UNCHANGED <<mutex, store, tops, incrs, StoreRest>>

\* incr and swap: c.mutex.Lock()
ThreadLock(t) ==
    /\ threads[t].pc \in {"lock", "tlock"}
    /\ lockFree(mutex)
    /\ mutex' = t
    /\ threads' = [threads EXCEPT ![t].pc = IF @ = "lock" THEN "read" ELSE "swap"]
    /\ UNCHANGED <<store, tops, incrs, nincrs, StoreRest>>

\* incr: c.index[name]++, the read of the count (a missing key reads 0)
ThreadRead(t) ==
    /\ threads[t].pc = "read"
    /\ threads' = [threads EXCEPT ![t].pc = "write",
                      ![t].val = IF threads[t].key \in DOMAIN store
                                 THEN store[threads[t].key] ELSE 0]
    /\ UNCHANGED <<mutex, store, tops, incrs, nincrs, StoreRest>>

\* incr: c.index[name]++, the write of the count
ThreadWrite(t) ==
    /\ threads[t].pc = "write"
    /\ store' = [k \in DOMAIN store \cup {threads[t].key} |->
                    IF k = threads[t].key THEN threads[t].val + 1 ELSE store[k]]
    /\ threads' = [threads EXCEPT ![t].pc = "unlock"]
    /\ UNCHANGED <<mutex, tops, incrs, nincrs, StoreRest>>

\* swap: m, c.index = c.index, m
ThreadSwap(t) ==
    /\ threads[t].pc = "swap"
    /\ store' = swap(store, makeCounterStore).index
    /\ threads' = [threads EXCEPT ![t].pc = "tunlock",
                                  ![t].snap = swap(store, makeCounterStore).old]
    /\ UNCHANGED <<mutex, tops, incrs, nincrs, StoreRest>>

\* incr and swap: c.mutex.Unlock(); incr returns
ThreadUnlock(t) ==
    /\ threads[t].pc \in {"unlock", "tunlock"}
    /\ mutex' = IF mutex = t THEN Nil ELSE mutex
    /\ IF threads[t].pc = "unlock"
       THEN /\ threads' = [threads EXCEPT ![t] = IdleThread]
            /\ incrs' = [incrs EXCEPT ![threads[t].key] = @ + 1]
       ELSE /\ threads' = [threads EXCEPT ![t].pc = "sort"]
            /\ UNCHANGED incrs
    /\ UNCHANGED <<store, tops, nincrs, StoreRest>>

\* top: the entries of the map swap returned, sorted and cut to n; top returns
ThreadSort(t) ==
    /\ threads[t].pc = "sort"
    /\ \E s \in sortedEntries(threads[t].snap) :
         tops' = Append(tops, [n |-> threads[t].n, count |-> truncate(s, threads[t].n),
                               incrs |-> incrs])
    /\ threads' = [threads EXCEPT ![t] = IdleThread]
    /\ UNCHANGED <<mutex, store, incrs, nincrs, StoreRest>>

ThreadNext ==
    \E t \in 1..MaxThreads :
        \/ ThreadCall(t)
        \/ ThreadLock(t)
        \/ ThreadRead(t)
        \/ ThreadWrite(t)
        \/ ThreadSwap(t)
        \/ ThreadUnlock(t)
        \/ ThreadSort(t)

\* ------------------------------------------- setup: dogstatsdParseBuffer
\* the arguments a 'buffer' line may carry: decimal numbers, and a word
\* strconv.Atoi rejects
BufferTokens ==
    [num : {TRUE}, val : {0 - 1, 0, 511, 512, 513, 1024, 65535, 65536, 65537}]
        \cup {[num |-> FALSE, val |-> 0]}

\* if bufferSize <= 512
tooSmall(n) == n <= 512

\* if bufferSize > 65536
tooLarge(n) == n > 65536

\* dogstatsdParseBuffer: the size and the error it returns (the second test
\* overwrites the error of the first)
dogstatsdParseBuffer(args) ==
    IF Len(args) # 1 THEN [bufferSize |-> 0, err |-> "ArgErr"]
    ELSE IF ~args[1].num THEN [bufferSize |-> 0, err |-> "Atoi"]
    ELSE [bufferSize |-> args[1].val,
          err |-> IF tooLarge(args[1].val) THEN "at most 65536"
                  ELSE IF tooSmall(args[1].val) THEN "at least 512"
                  ELSE "nil"]

\* dogstatsdParse, case "buffer" of a block with this one line: the plugin of
\* New with the size parsed, or the error and no plugin
dogstatsdParse(args) ==
    LET b == dogstatsdParseBuffer(args)
    IN IF b.err # "nil" THEN [op |-> "parsed", err |-> b.err, BufferSize |-> 0]
       ELSE [op |-> "parsed", err |-> "nil", BufferSize |-> b.bufferSize]

ParseBuffer ==
    /\ arg.op = "buffer" /\ ret = NoRes
    /\ ret' = dogstatsdParse(arg.args)
    /\ UNCHANGED <<arg, PureRest>>

ParseNext == ParseBuffer

\* ---------------------------------------------- Dogstatsd.Start and Stop
\* a call that has not begun, and the goroutine of a call that started none
NoCall == [fn |-> "none", pc |-> "idle"]

\* the rest of a call of Start or Stop, for UNCHANGED
LifeRest == <<cvars, gvars, nvars, hvars, dvars, fvars, svars, pvars, mvars, uvars>>

\* Start and Stop begin with d.once.Do(d.init): init makes d.ctx and d.cancel
\* the first time; a caller that finds init running waits for it
CallOnce(i) ==
    /\ calls[i].pc = "idle"
    /\ \E fn \in {"Start", "Stop"} :
         calls' = [calls EXCEPT ![i] = [fn |-> fn, pc |-> IF fn = "Start" THEN "add" ELSE "cancel"]]
    /\ once' = TRUE
    /\ UNCHANGED <<cancelled, wg, loops, LifeRest>>

\* Start: d.wg.Add(1)
StartAdd(i) ==
    /\ calls[i].pc = "add"
    /\ wg' = wg + 1
    /\ calls' = [calls EXCEPT ![i].pc = "go"]
    /\ UNCHANGED <<once, cancelled, loops, LifeRest>>

\* Start: go d.run(d.ctx), and Start returns
StartGo(i) ==
    /\ calls[i].pc = "go"
    /\ loops' = [loops EXCEPT ![i] = "report"]
    /\ calls' = [calls EXCEPT ![i].pc = "returned"]
    /\ UNCHANGED <<once, cancelled, wg, LifeRest>>

\* run: d.refreshDockerCache(); d.reportMetrics(state), then the select
LoopReport(i) ==
    /\ loops[i] = "report"
    /\ loops' = [loops EXCEPT ![i] = "select"]
    /\ UNCHANGED <<once, cancelled, wg, calls, LifeRest>>

\* run: select, case <-ticker.C
LoopTick(i) ==
    /\ loops[i] = "select"
    /\ loops' = [loops EXCEPT ![i] = "report"]
    /\ UNCHANGED <<once, cancelled, wg, calls, LifeRest>>

\* run: select, case <-ctx.Done(): return, and the deferred d.wg.Done()
LoopExit(i) ==
    /\ loops[i] = "select"
    /\ cancelled
    /\ loops' = [loops EXCEPT ![i] = "exited"]
    /\ wg' = wg - 1
    /\ UNCHANGED <<once, cancelled, calls, LifeRest>>

\* Stop: d.cancel()
StopCancel(i) ==
    /\ calls[i].pc = "cancel"
    /\ cancelled' = TRUE
    /\ calls' = [calls EXCEPT ![i].pc = "wait"]
    /\ UNCHANGED <<once, wg, loops, LifeRest>>

\* a Wait that does not wait
waitOver_atOnce(n) == TRUE

\* WaitGroup.Wait returns when the counter is zero
waitOver(n) == n = 0

\* Stop: d.wg.Wait(), and Stop returns
StopWait(i) ==
    /\ calls[i].pc = "wait"
    /\ waitOver(wg)
    /\ calls' = [calls EXCEPT ![i].pc = "returned"]
    /\ UNCHANGED <<once, cancelled, wg, loops, LifeRest>>

LifeNext ==
    \E i \in 1..MaxCalls :
        \/ CallOnce(i)
        \/ StartAdd(i)
        \/ StartGo(i)
        \/ LoopReport(i)
        \/ LoopTick(i)
        \/ LoopExit(i)
        \/ StopCancel(i)
        \/ StopWait(i)

\* ---------------------------------------------------------- specification
CacheInit ==
    /\ cacheReqs = <<>>
    /\ reqsClosed = FALSE
    /\ dpc = "dispatch"
    /\ caches = [k \in Keys |-> Nil]
    /\ prefetches = [k \in Keys |-> Nil]
    /\ ready = <<>>
    /\ done = <<>>
    /\ next = <<>>
    /\ entries = <<>>
    /\ lookups = [i \in 1 .. MaxLookups |-> NewLookup]
    /\ panicked = FALSE
    /\ ncancels = 0
    /\ gauges = NoGauges
    /\ gmutex = "free"
    /\ gcache = Nil
    /\ gagent = NoDC
    /\ ncaches = 0
    /\ queries = [q \in 1 .. MaxQueries |-> NewQuery]

\* no query name is being routed
NameIdle ==
    /\ qname = <<>> /\ qtype = "A" /\ qgrab = TRUE
    /\ routed = NotRouted

\* no header is being built
HeaderIdle == rttl = 0 /\ hdr = NoHeader

\* the dogstatsd plugin as New makes it, run not started
DogIdle ==
    /\ last = NoScrape /\ prev = NoScrape
    /\ dstate = << >> /\ metrics = <<>>
    /\ dloop = "stopped" /\ nreports = 0
    /\ stores = [clients |-> makeCounterStore, names |-> makeCounterStore,
                 exchanges |-> makeCounterStore]
    /\ nserves = 0

\* no flush is being made
FlushIdle == lines = <<>> /\ bufferSize = defaultBufferSize /\ flushed = NotFlushed

\* no counterStore is being exercised
StoreIdle ==
    /\ store = makeCounterStore /\ tops = <<>>
    /\ incrs = [k \in StoreKeys |-> 0]
    /\ nincrs = 0

\* New: neither Start nor Stop was called
LifeIdle ==
    /\ once = FALSE /\ cancelled = FALSE /\ wg = 0
    /\ calls = [i \in 1..MaxCalls |-> NoCall]
    /\ loops = [i \in 1..MaxCalls |-> "none"]

\* no goroutine is calling incr or top
MutexIdle == mutex = Nil /\ threads = [t \in 1..MaxThreads |-> IdleThread]

\* no function is being called by itself
PureIdle == arg = NoArg /\ ret = NoRes

ExtraIdle == PureIdle /\ LifeIdle /\ MutexIdle

Idle == NameIdle /\ HeaderIdle /\ DogIdle /\ FlushIdle /\ StoreIdle /\ ExtraIdle

Init == CacheInit /\ Idle

\* every query name, query type and outcome of grabCache
NameInit ==
    /\ CacheInit
    /\ qname \in Names /\ qtype \in QTypes /\ qgrab \in BOOLEAN
    /\ routed = NotRouted
    /\ HeaderIdle /\ DogIdle /\ FlushIdle /\ StoreIdle /\ ExtraIdle

\* every lifetime ttl() can return: from the whole TTL down to 0 at and after
\* the deadline
HeaderInit ==
    /\ CacheInit /\ NameIdle
    /\ rttl \in 0 .. MaxRemaining
    /\ hdr = NoHeader
    /\ DogIdle /\ FlushIdle /\ StoreIdle /\ ExtraIdle

\* Start: the goroutine of run begins with an empty state; the buffer size
\* is the default of New
DogInit ==
    /\ CacheInit /\ NameIdle /\ HeaderIdle /\ FlushIdle /\ StoreIdle /\ ExtraIdle
    /\ last = NoScrape /\ prev = NoScrape
    /\ dstate = << >> /\ metrics = <<>>
    /\ dloop = "report" /\ nreports = 0
    /\ stores = [clients |-> makeCounterStore, names |-> makeCounterStore,
                 exchanges |-> makeCounterStore]
    /\ nserves = 0

\* every list of line lengths and every buffer size
FlushInit ==
    /\ CacheInit /\ NameIdle /\ HeaderIdle /\ DogIdle /\ StoreIdle /\ ExtraIdle
    /\ lines \in UNION {[1..n -> 1..MaxLine] : n \in 0..MaxMetrics}
    /\ bufferSize \in 1..MaxBuffer
    /\ flushed = NotFlushed

\* makeCounterStore()
StoreInit == CacheInit /\ Idle

\* the rest of the program while a function is called by itself
Rest ==
    /\ CacheInit /\ NameIdle /\ HeaderIdle /\ DogIdle /\ FlushIdle /\ StoreIdle

\* every family name of up to MaxParts parts and every setting of the flags
FilterInit ==
    /\ Rest /\ LifeIdle /\ MutexIdle
    /\ arg \in [op : {"collect"},
                 name : UNION {[1..n -> NameParts] : n \in 1..MaxParts},
                 go : BOOLEAN, process : BOOLEAN]
    /\ ret = NoRes

Next ==
    \/ \E i \in 1 .. MaxLookups, k \in Keys, c \in {"live", "cancelled"} : SendReq(i, k, c)
    \/ \E i \in 1 .. MaxLookups : AbortSend(i)
    \/ \E i \in 1 .. MaxLookups : Cancel(i)
    \/ \E i \in 1 .. MaxLookups : Receive(i)
    \/ \E i \in 1 .. MaxLookups : AbortWait(i)
    \/ \E e \in 1 .. MaxEntries, f \in Fetches : LoadDone(e, f)
    \/ \E e \in 1 .. MaxEntries : ServeTimeout(e)
    \/ \E e \in 1 .. MaxEntries : ServePrefetchCheck(e)
    \/ \E e \in 1 .. MaxEntries : ServePrefetchTrigger(e)
    \/ \E e \in 1 .. MaxEntries : ServeReq(e)
    \/ \E e \in 1 .. MaxEntries : ServeClosed(e)
    \/ \E e \in 1 .. MaxEntries : DrainReq(e)
    \/ DispatchDone
    \/ \E t \in 0 .. 2 * TTL : DispatchNext(t)
    \/ DispatchReady
    \/ \E t \in 0 .. 2 * TTL : DispatchReq(t)
    \/ CloseCache
    \/ DispatchClosed
    \/ ShutdownNext
    \/ ShutdownDone
    \/ ShutdownReady

Spec == Init /\ [][Next]_vars

\* the steps of Next taken by the first MaxWaiters ServeDNS calls
FairNext ==
    \/ \E i \in 1 .. MaxWaiters, k \in Keys, c \in {"live", "cancelled"} : SendReq(i, k, c)
    \/ \E i \in 1 .. MaxWaiters : AbortSend(i)
    \/ \E i \in 1 .. MaxWaiters : Cancel(i)
    \/ \E i \in 1 .. MaxWaiters : Receive(i)
    \/ \E i \in 1 .. MaxWaiters : AbortWait(i)
    \/ \E e \in 1 .. MaxEntries, f \in Fetches : LoadDone(e, f)
    \/ \E e \in 1 .. MaxEntries : ServeTimeout(e)
    \/ \E e \in 1 .. MaxEntries : ServePrefetchCheck(e)
    \/ \E e \in 1 .. MaxEntries : ServePrefetchTrigger(e)
    \/ \E e \in 1 .. MaxEntries : ServeReq(e)
    \/ \E e \in 1 .. MaxEntries : ServeClosed(e)
    \/ \E e \in 1 .. MaxEntries : DrainReq(e)
    \/ DispatchDone
    \/ \E t \in 0 .. 2 * TTL : DispatchNext(t)
    \/ DispatchReady
    \/ \E t \in 0 .. 2 * TTL : DispatchReq(t)
    \/ CloseCache
    \/ DispatchClosed
    \/ ShutdownNext
    \/ ShutdownDone
    \/ ShutdownReady

\* every goroutine that can take a step is scheduled: a load returns (the
\* upstream fetch answers), a serviceCache goroutine receives from its request
\* channel, and the dispatcher takes a ready case of its select. The timers
\* are left free: they fire late or not at all within a run
FairSpec ==
    /\ Init /\ [][FairNext]_vars
    /\ \A e \in 1 .. MaxEntries :
         /\ WF_vars(\E f \in Fetches : LoadDone(e, f))
         /\ WF_vars(ServeReq(e))
         /\ WF_vars(ServeClosed(e))
         /\ WF_vars(DrainReq(e))
    /\ WF_vars(DispatchDone)
    /\ WF_vars(\E t \in 0 .. 2 * TTL : DispatchNext(t))
    /\ WF_vars(DispatchReady)
    /\ WF_vars(\E t \in 0 .. 2 * TTL : DispatchReq(t))
    /\ WF_vars(DispatchClosed)
    /\ WF_vars(ShutdownNext)
    /\ WF_vars(ShutdownDone)
    /\ WF_vars(ShutdownReady)

GrabSpec == Init /\ [][GrabNext]_vars

NameSpec == NameInit /\ [][NameNext]_vars

HeaderSpec == HeaderInit /\ [][HeaderNext]_vars

DogSpec == DogInit /\ [][DogNext]_vars

FlushSpec == FlushInit /\ [][FlushNext]_vars

StoreSpec == StoreInit /\ [][StoreNext]_vars

FilterSpec == FilterInit /\ [][FilterNext]_vars

\* Init of the specification of the timers: a cache entry is about to be made
TimerInit ==
    /\ Rest /\ LifeIdle /\ MutexIdle
    /\ arg \in [op : {"spawn"}, now : 0..MaxNow, ttl : -1..MaxTTL, pct : Percentages]
    /\ ret = NoRes

TimerSpec == TimerInit /\ [][TimerNext]_vars

\* Init of the specification of the histogram: the gathers to come
ScrapeInit ==
    /\ Rest /\ LifeIdle /\ MutexIdle
    /\ arg \in [op : {"scrapes"}, hs : [1..MaxScrapes -> Hists]]
    /\ ret = NoRes

ScrapeSpec == ScrapeInit /\ [][ScrapeNext]_vars

\* Init of the specification of the key: the queries that will be asked
KeyInit ==
    /\ Rest /\ LifeIdle /\ MutexIdle
    /\ arg \in [op : {"queries"},
                qs : [1 .. MaxAsked -> [name : AskedNames, type : QTypes]]]
    /\ ret = NoRes

KeySpec == KeyInit /\ [][KeyNext]_vars

\* Init of the specification of the setup: a 'buffer' line of any arguments
ParseInit ==
    /\ Rest /\ LifeIdle /\ MutexIdle
    /\ arg \in [op : {"buffer"},
                args : UNION {[1..n -> BufferTokens] : n \in 0..MaxArgs}]
    /\ ret = NoRes

ParseSpec == ParseInit /\ [][ParseNext]_vars

\* goroutines call incr and top on one counterStore, in any interleaving
ThreadSpec == Init /\ [][ThreadNext]_vars

\* every goroutine that can take a step takes one in the end, and a select
\* that finds ctx.Done() ready again and again takes that case in the end
LifeSpec ==
    /\ Init /\ [][LifeNext]_vars
    /\ \A i \in 1..MaxCalls :
          /\ WF_vars(StartAdd(i)) /\ WF_vars(StartGo(i))
          /\ WF_vars(LoopReport(i)) /\ SF_vars(LoopExit(i))
          /\ WF_vars(StopCancel(i)) /\ WF_vars(StopWait(i))

\* ------------------------------------------------------------------ C1
\* the entries whose load has not returned: the upstream fetches in flight
Loading(k) ==
    { e \in 1 .. Len(entries) : entries[e].spc = "load" /\ entries[e].key = k }

\* C1: for every key, at most one upstream fetch is in flight at any time,
\* whatever lookups and prefetch triggers for the key arrive meanwhile.
C1_SingleFetchPerKey == \A k \in Keys : Cardinality(Loading(k)) <= 1

\* a prefetch of a cached key is in flight and a later lookup for the key has
\* been dispatched without a second fetch
C1_Witness ==
    \E k \in Keys :
        /\ caches[k] # Nil
        /\ prefetches[k] # Nil
        /\ Loading(k) = {prefetches[k]}
        /\ entries[caches[k]].reqs # <<>>

\* ------------------------------------------------------------------ C2
\* the number of j in a .. b with h[j] = s
Count(h, a, b, s) == Cardinality({ j \in a .. b : h[j] = s })

\* C2: the i-th lookup an entry of n > 0 endpoints answers gets
\* endpoints[(i-1) mod n], the counter is the number of answers mod n (a
\* rejected lookup takes no position), and any k*n successive answers hold
\* each endpoint exactly k times.
C2_RoundRobin ==
    \A e \in 1 .. Len(entries) :
        LET n == Len(entries[e].services)
            h == entries[e].served
        IN (n > 0 /\ entries[e].spc \in {"serve", "drain"}) =>
              /\ \A j \in 1 .. Len(h) : h[j] = entries[e].services[((j - 1) % n) + 1]
              /\ entries[e].roundRobin = Len(h) % n
              /\ \A a \in 1 .. Len(h), k \in 1 .. Len(h) :
                    (a + k * n - 1 <= Len(h)) =>
                        \A j \in 1 .. n :
                            Count(h, a, a + k * n - 1, entries[e].services[j]) = k

\* an entry has answered a full cycle of its endpoints and its counter has
\* wrapped, while a lookup for its key was rejected
C2_Witness ==
    \E e \in 1 .. Len(entries), i \in 1 .. MaxLookups :
        /\ Len(entries[e].services) > 1
        /\ Len(entries[e].served) >= Len(entries[e].services)
        /\ entries[e].roundRobin = 0
        /\ lookups[i].key = entries[e].key
        /\ lookups[i].res = <<rejection(errTooManyRequests)>>

\* ------------------------------------------------------------------ C3
\* a negative entry for k is cached and its timeout has not fired
NegCached(k) ==
    /\ caches[k] # Nil
    /\ entries[caches[k]].err # NoErr
    /\ entries[caches[k]].spc = "serve"

\* C3: while a negative entry for a key is cached and unexpired, every lookup
\* the entry answers gets the stored error, and no step starts a new upstream
\* fetch for the key.
C3_NegativeNoRefetch ==
    [][ \A k \in Keys :
          NegCached(k) =>
            /\ \A e \in (Len(entries) + 1) .. Len(entries') : entries'[e].key # k
            /\ \A i \in 1 .. MaxLookups :
                 ( /\ lookups[i].res = <<>>
                   /\ lookups'[i].res # <<>>
                   /\ lookups'[i].res[1].from = caches[k] )
                 => lookups'[i].res[1].err = entries[caches[k]].err ]_vars

\* ------------------------------------------------------------------ C4
\* every response waiting to be read was computed from one entry, the entry of
\* the key of its lookup: its error is the entry's, and its endpoint is one of
\* the entry's (none when the entry has none)
RespConsistent ==
    \A i \in 1 .. MaxLookups :
        (lookups[i].res # <<>> /\ lookups[i].res[1].from # Nil) =>
            LET r == lookups[i].res[1]
                sc == entries[r.from]
            IN /\ sc.key = lookups[i].key
               /\ r.err = sc.err
               /\ r.err # NoErr => r.srv = NoSrv
               /\ (r.err = NoErr /\ sc.services = <<>>) => r.srv = NoSrv
               /\ (r.err = NoErr /\ sc.services # <<>>) => r.srv \in Range(sc.services)
               /\ r.ttl <= sc.ttl

\* the key, endpoints, error and lifetime of an entry do not change once its
\* load has returned, for as long as anything can read them
Immutable ==
    \A e \in 1 .. Len(entries) :
        ( /\ entries[e].spc # "load"
          /\ ~Garbage(entries', e, caches', prefetches', ready', done', lookups') )
        => /\ entries'[e].key = entries[e].key
           /\ entries'[e].services = entries[e].services
           /\ entries'[e].err = entries[e].err
           /\ entries'[e].ttl = entries[e].ttl

\* C4: a response is computed entirely from one entry, and the endpoints and
\* error of an entry are not modified after it has started serving.
C4_OneEntryPerResponse == [][Immutable /\ RespConsistent']_vars

\* a refresh has replaced the entry of a key while responses of the old and of
\* the new entry are both waiting to be read
C4_Witness ==
    \E i \in 1 .. MaxLookups, j \in 1 .. MaxLookups :
        /\ lookups[i].res # <<>> /\ lookups[j].res # <<>>
        /\ lookups[i].key = lookups[j].key
        /\ lookups[i].res[1].from # Nil
        /\ lookups[j].res[1].from # Nil
        /\ lookups[i].res[1].from # lookups[j].res[1].from
        /\ caches[lookups[j].key] = lookups[j].res[1].from
        /\ entries[lookups[i].res[1].from].closed

\* ------------------------------------------------------------------ C5
\* C5: a lookup whose context is cancelled when it is made returns the error
\* of the context and leaves the request channel of the cache untouched.
C5_CancelledLookupSkipsCache ==
    [][ \A i \in 1 .. MaxLookups :
          ( /\ lookups[i].pc = "new"
            /\ lookups'[i].pc # "new"
            /\ ncancels' = ncancels + 1 )
          => (lookups'[i].pc = "ret" /\ cacheReqs' = cacheReqs) ]_vars

\* ------------------------------------------------------------------ C6
\* the context of waiting call i is cancelled in this step, or call i leaves
\* its second select because of its cancelled context
CancelStep(i) ==
    /\ lookups[i].pc = "wait"
    /\ \/ lookups[i].ctx = "live" /\ lookups'[i].ctx = "cancelled"
       \/ lookups[i].ctx = "cancelled" /\ lookups'[i].pc = "ret"

\* C6: cancelling a waiting lookup, and that lookup giving up, leave every
\* fetch in flight, the maps and channels of the dispatcher, the queue of
\* every entry and every other lookup as they were.
C6_CancelLeavesFetch ==
    [][ \A i \in 1 .. MaxLookups :
          CancelStep(i) =>
            /\ Len(entries') = Len(entries)
            /\ \A e \in 1 .. Len(entries) :
                 /\ entries[e].spc = "load" => entries'[e] = entries[e]
                 /\ entries'[e].reqs = entries[e].reqs
                 /\ entries'[e].spc = entries[e].spc
                 /\ entries'[e].closed = entries[e].closed
            /\ UNCHANGED <<cacheReqs, caches, prefetches, ready, done, next>>
            /\ \A j \in 1 .. MaxLookups : j # i => lookups'[j] = lookups[j] ]_vars

\* a lookup for a key gave up on its cancelled context while the fetch was in
\* flight (its request is still queued), the fetch completed and was cached,
\* and another lookup for the key has received its result
C6_Witness ==
    \E i \in 1 .. MaxLookups, j \in 1 .. MaxLookups :
        /\ i # j
        /\ lookups[i].pc = "ret" /\ lookups[i].ctx = "cancelled"
        /\ i \in Range(cacheReqs)
        /\ lookups[i].key = lookups[j].key
        /\ lookups[j].pc = "wait"
        /\ lookups[j].res # <<>>
        /\ lookups[j].res[1].from # Nil
        /\ caches[lookups[j].key] = lookups[j].res[1].from
        /\ lookups[j].res[1].err = entries[lookups[j].res[1].from].err

\* ------------------------------------------------------------------ C7
\* the entry the dispatcher routes key k to, Nil when it has none
Target(k) == IF caches[k] # Nil THEN caches[k] ELSE prefetches[k]

\* the request at the head of cache.reqs is for an entry whose queue holds
\* MaxRequests requests
Saturated ==
    /\ Live /\ dpc = "dispatch"
    /\ cacheReqs # <<>>
    /\ Target(lookups[Head(cacheReqs)].key) # Nil
    /\ Len(entries[Target(lookups[Head(cacheReqs)].key)].reqs) = MaxRequests

\* C7: when the queue of the entry of a key is full, the dispatcher can take
\* the next request for the key, and taking it rejects the request with
\* errTooManyRequests, leaves the maps and the entries unchanged and leaves
\* the dispatcher in its loop.
C7_SaturatedRejects ==
    [][ Saturated =>
          /\ ENABLED (\E t \in 0 .. 2 * TTL : DispatchReq(t))
          /\ (cacheReqs' = Tail(cacheReqs)) =>
               LET r == Head(cacheReqs)
               IN /\ lookups'[r].pc = lookups[r].pc
                  /\ lookups[r].pc = "wait"
                        => lookups'[r].res = <<rejection(errTooManyRequests)>>
                  /\ UNCHANGED <<caches, prefetches, entries, dpc, panicked>> ]_vars

\* a lookup was rejected for a full queue and a later lookup, for another key,
\* has been dispatched to its entry
C7_Witness ==
    \E i \in 1 .. MaxLookups, j \in 1 .. MaxLookups, e \in 1 .. Len(entries) :
        /\ i < j
        /\ lookups[i].res = <<rejection(errTooManyRequests)>>
        /\ lookups[j].key # lookups[i].key
        /\ entries[e].key = lookups[j].key
        /\ j \in Range(entries[e].reqs)
        /\ dpc = "dispatch"

\* ------------------------------------------------------------------ C8
\* C8: an entry the caches map holds past its expiration has its removal
\* pending (it is in the done channel) or its replacement pending (a fetch or
\* a prefetch request for its key), so that it does not stay for ever.
C8_ExpiredEntryLeavesMap ==
    \A k \in Keys :
        ( /\ Live /\ dpc = "dispatch"
          /\ caches[k] # Nil
          /\ entries[caches[k]].spc = "drain" )
        => \/ caches[k] \in Range(done)
           \/ prefetches[k] # Nil
           \/ k \in Range(next)

\* ------------------------------------------------------------------ C9
\* C9: the key of every query whose name has no datacenter label carries the
\* default datacenter of the agent.
C9_DefaultDatacenter ==
    \A q \in 1 .. MaxQueries :
        (queries[q].pc = "sent" /\ queries[q].dc = NoDC)
        => queries[q].keydc = AgentDC

\* ----------------------------------------------------------------- C10
\* the response r waiting to be read by call i was sent by an entry
FromEntry(i) == lookups[i].res # <<>> /\ lookups[i].res[1].from # Nil

\* C10 as stated: a lookup answered from a negative entry or from an entry
\* with no endpoint returns NXDOMAIN with no answer record.
C10_NameErrorWhenNoEndpoint ==
    \A i \in 1 .. MaxLookups :
        ( /\ FromEntry(i)
          /\ \/ entries[lookups[i].res[1].from].err # NoErr
             \/ entries[lookups[i].res[1].from].services = <<>> )
        => /\ Answer(lookups[i].res[1]).rcode = "NXDOMAIN"
           /\ Answer(lookups[i].res[1]).answer = NoSrv

\* C10, amended: a lookup answered from an entry with no error and no endpoint
\* returns NXDOMAIN with no answer record and no error; a lookup answered from
\* a negative entry returns SERVFAIL with the stored error and no answer
\* record.
C10_NameErrorOrServFail ==
    \A i \in 1 .. MaxLookups :
        FromEntry(i) =>
            LET sc == entries[lookups[i].res[1].from]
                a == Answer(lookups[i].res[1])
            IN /\ (sc.err = NoErr /\ sc.services = <<>>) =>
                     a = [rcode |-> "NXDOMAIN", err |-> NoErr, answer |-> NoSrv]
               /\ sc.err # NoErr =>
                     a = [rcode |-> "SERVFAIL", err |-> sc.err, answer |-> NoSrv]

\* one call is about to read the response of a negative entry and another
\* the response of an entry with no endpoint
C10_Witness ==
    \E i \in 1 .. MaxLookups, j \in 1 .. MaxLookups :
        /\ FromEntry(i) /\ FromEntry(j)
        /\ lookups[i].pc = "wait" /\ lookups[j].pc = "wait"
        /\ entries[lookups[i].res[1].from].err # NoErr
        /\ entries[lookups[j].res[1].from].err = NoErr
        /\ entries[lookups[j].res[1].from].services = <<>>
        /\ entries[lookups[j].res[1].from].spc = "serve"

\* ----------------------------------------------------------------- C11
\* the name is under the consul. domain: its last label is consul
UnderConsul(s) == s # <<>> /\ s[Len(s)] = "consul"

\* C11: on an initialised plugin, a query whose name is not under the
\* consul. domain sends no request to the cache and is answered REFUSED (or
\* NXDOMAIN, by the rule for an empty service name that precedes it).
C11_NonConsulRefused ==
    (routed # NotRouted /\ qgrab /\ ~UnderConsul(qname))
    => (routed.rcode \in {"REFUSED", "NXDOMAIN"} /\ ~routed.sent)

\* ----------------------------------------------------------------- C12
\* C12: every record header carries TTL = max(1, floor(ttl_remaining / 1s))
\* seconds as a 32-bit number, never zero.
C12_HeaderTTL ==
    hdr # NoHeader =>
        /\ hdr.Ttl = << 0, IF rttl \div Quarters >= 1 THEN rttl \div Quarters ELSE 1 >>
        /\ hdr.Ttl # <<0, 0>>

\* ------------------------------------------------------------------ C13
\* the values of the samples of the counter series in the metrics of the
\* latest collectMetrics
IsCounter1(m) == m.kind = "c" /\ m.name = "counter1"

CounterSamples ==
    LET s == SelectSeq(metrics, IsCounter1) IN [j \in 1..Len(s) |-> s[j].value]

\* the stream the deltas of two successive values make: v1 - v0, v1 itself
\* when the delta is negative, nothing when it is zero
DeltaStream(v0, v1) ==
    LET d == IF v1 - v0 < 0 THEN v1 ELSE v1 - v0
    IN  IF d = 0 THEN <<>> ELSE <<d>>

\* C13: for a counter whose gathered values go v0, v1, v2, ..., the samples
\* emitted at the gather of v(k+1) are v(k+1) - v(k), nothing when that is
\* zero, and v(k+1) itself when the delta is negative.
C13_CounterDeltaStream ==
    (prev # NoScrape /\ flushed.err # "gather")
        => CounterSamples = DeltaStream(prev.c, last.c)

\* ------------------------------------------------------------------ C14
\* the observations bucket i of the histogram held by itself at gather r
Own(r, i) ==
    IF r = NoScrape THEN 0 ELSE r.h[i] - (IF i = 1 THEN 0 ELSE r.h[i - 1])

\* the places, in the metrics of the latest collectMetrics, of the samples
\* of bucket i
BucketSamples(i) ==
    {j \in 1..Len(metrics) : metrics[j].kind = "h" /\ metrics[j].index = i - 1}

GaugeSamples ==
    {j \in 1..Len(metrics) : metrics[j].kind = "g" /\ metrics[j].name = "gauge1"}

\* C15: every flush emits exactly one sample for the gauge series of the
\* gather, carrying the latest value of the gauge, whether the value changed
\* since the flush before or not.
C15_GaugeAlwaysEmitted ==
    (last # NoScrape /\ flushed.err # "gather") =>
        /\ Cardinality(GaugeSamples) = 1
        /\ \A j \in GaugeSamples : metrics[j].value = last.g

\* the gauge kept its value from one gather to the next and was emitted
C15_Witness ==
    /\ prev # NoScrape /\ flushed.err # "gather"
    /\ prev.g = last.g /\ last.g = 1
    /\ GaugeSamples # {}

\* ------------------------------------------------------------------ C16
\* C16: no datagram a flush writes is longer than the buffer size dial
\* returned, whatever the lengths of the lines of the metrics are.
C16_DatagramFitsBuffer ==
    flushed # NotFlushed =>
        \A k \in 1..Len(flushed.writes) :
            dgramLen(lines, flushed.writes[k]) <= bufferSize

\* a flush wrote several datagrams, one of them filled to the buffer size by
\* more than one line, and dropped a line
C16_Witness ==
    /\ flushed # NotFlushed
    /\ Len(flushed.writes) >= 2
    /\ flushed.dropped # {}
    /\ \E k \in 1..Len(flushed.writes) :
          /\ Len(flushed.writes[k]) >= 2
          /\ dgramLen(lines, flushed.writes[k]) = bufferSize

\* ------------------------------------------------------------------ C17
\* the lines of the datagrams written, one after the other
RECURSIVE Flatten(_)
Flatten(ws) == IF ws = <<>> THEN <<>> ELSE Head(ws) \o Flatten(Tail(ws))

\* the places of the lines that are no longer than the buffer size, in order
Fits(i) == lines[i] <= bufferSize

Kept == SelectSeq([i \in 1..Len(lines) |-> i], Fits)

\* C17: in a flush whose dial and writes succeed, the lines longer than the
\* buffer size are dropped and nothing else is: every other line is written,
\* in order, and the datagrams are those the other lines make by themselves
\* (a datagram ends only where the next line written does not fit in it).
C17_OnlyOversizeDropped ==
    (flushed # NotFlushed /\ flushed.err = "none") =>
        /\ flushed.dropped = {i \in 1..Len(lines) : lines[i] > bufferSize}
        /\ Flatten(flushed.writes) = Kept
        /\ \A k \in 1..Len(flushed.writes) : flushed.writes[k] # <<>>
        /\ \A k \in 1..(Len(flushed.writes) - 1) :
              dgramLen(lines, flushed.writes[k])
                + lines[flushed.writes[k + 1][1]] > bufferSize

\* a line was dropped between two lines that were written in one datagram
C17_Witness ==
    /\ flushed # NotFlushed /\ flushed.err = "none"
    /\ \E i \in flushed.dropped, k \in 1..Len(flushed.writes) :
          \E a, b \in 1..Len(flushed.writes[k]) :
              flushed.writes[k][a] < i /\ i < flushed.writes[k][b]

\* ------------------------------------------------------------------ C18
\* the counters a store held, as the set of the samples made of them
StoreSamples(index, name) ==
    {[name |-> name, key |-> k, value |-> index[k]] : k \in DOMAIN index}

\* the samples of the top10 series in a list of metrics
TopSamples(ms) ==
    {[name |-> ms[j].name, key |-> ms[j].tags[2], value |-> ms[j].value] :
        j \in {x \in 1..Len(ms) : ms[x].tags # <<>>}}

\* a call of reportMetrics whose flush failed in dial or in a write
FailedFlush ==
    /\ dloop = "report" /\ nreports' = nreports + 1
    /\ flushed'.err \in {"dial", "write"}

\* C18: when the flush of a tick fails in dial or in a write, run goes on to
\* wait for the next tick, and what later ticks emit is what they would emit
\* had the flush succeeded: the translator state is the one collectMetrics
\* left for the gathered values, the metrics of the tick are those of a
\* successful tick, and the three stores were read and emptied, so that
\* nothing of the failed flush is sent again.
C18_FlushErrorIsolated ==
    [][FailedFlush =>
          LET obs == observeAll(dstate, familyMetrics(families(last')), <<>>)
          IN  /\ dloop' = "select"
              /\ dstate' = obs.s
              /\ SubSeq(metrics', 1, Len(obs.metrics)) = obs.metrics
              /\ TopSamples(metrics') =
                    StoreSamples(stores.clients, "coredns.dns.clients.top10")
                    \cup StoreSamples(stores.names, "coredns.dns.names.top10")
                    \cup StoreSamples(stores.exchanges, "coredns.dns.exchanges.top10")
              /\ stores' = [clients |-> << >>, names |-> << >>, exchanges |-> << >>]
    ]_vars

\* a flush that had metrics of the registry and of the stores to send failed,
\* the stores are empty and the ticker has fired again
C18_Witness ==
    /\ dloop = "report"
    /\ flushed # NotFlushed /\ flushed.err \in {"dial", "write"}
    /\ nserves = 1 /\ TopSamples(metrics) # {}
    /\ stores.names = << >>
    /\ last # NoScrape /\ last.c > 0

\* ------------------------------------------------------------------ C19
\* no call of incr was made between the call of top before and call t
NothingSince(t) == \A k \in StoreKeys : t.incrs[k] = 0

\* C19: a call of top that follows a call of top, with no call of incr
\* between the two, returns the empty slice, whatever n the calls are given
\* and however many keys the first call left out.
C19_TopResetsOnRead ==
    \A j \in 2..Len(tops) : NothingSince(tops[j]) => tops[j].count = <<>>

\* top(m) returned fewer entries than there were keys, and top(m) called
\* again at once returned nothing
C19_Witness ==
    /\ Len(tops) = 2
    /\ tops[1].n = tops[2].n /\ tops[1].n >= 1
    /\ Cardinality({k \in StoreKeys : tops[1].incrs[k] > 0}) > tops[1].n
    /\ NothingSince(tops[2])
    /\ tops[2].count = <<>>

\* ------------------------------------------------------------------ C20
\* the keys incremented before call t of top, since the call before
Counted(t) == {k \in StoreKeys : t.incrs[k] > 0}

Returned(t) == {t.count[j].key : j \in 1..Len(t.count)}

Min(a, b) == IF a <= b THEN a ELSE b

\* C20: top(n) returns min(n, number of distinct keys) entries, of distinct
\* keys, in non-increasing order of count; the count of an entry is the
\* number of calls of incr for its key since the call of top before, and no
\* key left out has a count greater than one returned.
C20_TopNOrdered ==
    \A j \in 1..Len(tops) :
        LET t == tops[j]
        IN  /\ Len(t.count) = Min(t.n, Cardinality(Counted(t)))
            /\ Cardinality(Returned(t)) = Len(t.count)
            /\ \A a \in 1..Len(t.count) :
                  /\ t.count[a].key \in Counted(t)
                  /\ t.count[a].value = t.incrs[t.count[a].key]
            /\ \A a \in 1..(Len(t.count) - 1) :
                  t.count[a].value >= t.count[a + 1].value
            /\ \A o \in Counted(t) \ Returned(t), a \in 1..Len(t.count) :
                  t.incrs[o] <= t.count[a].value

\* top(2) on three keys of counts 2, 1 and 1: one of the two keys of count 1
\* was left out
C20_Witness ==
    \E j \in 1..Len(tops) :
        /\ tops[j].n = 2
        /\ Cardinality(Counted(tops[j])) = 3
        /\ Len(tops[j].count) = 2
        /\ tops[j].count[1].value = 2
        /\ tops[j].count[2].value = 1

\* ------------------------------------------------------------------ C21
\* a family of the Go collector (go_...) or of the process collector
\* (process_...), under the namespace or not
RuntimeFamily(s, part) ==
    \/ s[1] = part /\ Len(s) >= 2
    \/ Len(s) >= 3 /\ s[1] = Namespace /\ s[2] = part

\* C21: with EnableGoMetrics false no sample of a family of the Go runtime is
\* emitted, and with EnableProcessMetrics false none of a process family.
C21_DisabledFamiliesSkipped ==
    (arg.op = "collect" /\ ret # NoRes) =>
        /\ (~arg.go /\ RuntimeFamily(arg.name, "go")) => ret.op = "skipped"
        /\ (~arg.process /\ RuntimeFamily(arg.name, "process")) => ret.op = "skipped"

\* ------------------------------------------------------------------ C22
\* the loop of call i is running
Running(i) == loops[i] \in {"report", "select"}

\* a call of Stop returns
StopReturns == \E i \in 1..MaxCalls : calls[i].pc = "wait" /\ calls'[i].pc = "returned"

\* C22: once Stop was called every loop started by a call of Start exits in
\* the end, and Stop returns only when every loop started so far has exited,
\* in whatever order the calls of Start and Stop are made and interleaved.
C22_GracefulShutdown ==
    /\ [][StopReturns => \A i \in 1..MaxCalls : ~Running(i)]_vars
    /\ \A i \in 1..MaxCalls : (cancelled /\ Running(i)) ~> (loops[i] = "exited")

\* Stop has returned after two loops, started before it was called, exited
C22_Witness ==
    /\ \E i \in 1..MaxCalls : calls[i] = [fn |-> "Stop", pc |-> "returned"]
    /\ Cardinality({i \in 1..MaxCalls : loops[i] = "exited"}) = 2
    /\ wg = 0

\* ------------------------------------------------------------------ C23
\* C23: the expiration of an entry made at time now lies in
\* [now + ttl, now + ttl + ttl/2), ttl being the configured ttl.
C23_ExpirationAfterTTL ==
    (arg.op = "spawn" /\ ret # NoRes /\ ret.op = "serving") =>
        /\ arg.now + arg.ttl <= ret.deadline
        /\ ret.deadline < arg.now + arg.ttl + (arg.ttl \div 2)

\* C23 as amended: the expiration of an entry that starts serving at time now
\* lies in [now + ttl/2, now + ttl), ttl being the configured ttl.
C23_ExpirationWithinTTL ==
    (arg.op = "spawn" /\ ret # NoRes /\ ret.op = "serving") =>
        /\ arg.now + (arg.ttl \div 2) <= ret.deadline
        /\ ret.deadline < arg.now + arg.ttl

\* an entry of the largest ttl got the longest lifetime there is
C23_Witness ==
    /\ arg.op = "spawn" /\ ret # NoRes /\ ret.op = "serving"
    /\ arg.ttl = MaxTTL /\ ret.deadline = arg.now + 2 * (arg.ttl \div 2) - 1

\* ------------------------------------------------------------------ C24
\* C24: the prefetch deadline of an entry is its expiration less
\* ttl * prefetch_percentage / 1000, ttl being the lifetime of the entry.
C24_PrefetchDeadlineThousandth ==
    (arg.op = "spawn" /\ ret # NoRes /\ ret.op = "serving") =>
        ret.trigger = ret.deadline - ((ret.ttl * arg.pct) \div 1000)

\* C24 as amended: the prefetch deadline of an entry is its expiration less
\* ttl * prefetch_percentage / 100, ttl being the lifetime of the entry.
C24_PrefetchDeadlinePercent ==
    (arg.op = "spawn" /\ ret # NoRes /\ ret.op = "serving") =>
        ret.trigger = ret.deadline - ((ret.ttl * arg.pct) \div 100)

\* an entry whose prefetch leads its expiration by more than a thousandth
C24_Witness ==
    /\ arg.op = "spawn" /\ ret # NoRes /\ ret.op = "serving"
    /\ arg.pct = 50 /\ ret.ttl = 6 /\ ret.trigger = ret.deadline - 3

\* ------------------------------------------------------------------ C25
\* a fetch for key k is in flight or asked for
PrefetchStarted(k) == prefetches[k] # Nil \/ \E i \in 1 .. Len(next) : next[i] = k

\* C25: for a key whose cached entry is serving endpoints, a prefetch is
\* started if and only if the entry has answered at least prefetch_amount
\* lookups and its prefetch deadline has passed.
C25_PrefetchIff ==
    \A k \in Keys :
        LET e == caches[k]
        IN (e # Nil /\ entries[e].spc = "serve" /\ entries[e].err = NoErr
                    /\ entries[e].services # <<>>) =>
              (PrefetchStarted(k) <=>
                  (Len(entries[e].served) >= PrefetchAmount /\ entries[e].trig))

\* ------------------------------------------------------------------ C26
\* the service, tag and datacenter a query names
Asked(q) ==
    LET n == splitName(q.name)
    IN [name |-> n.name, tag |-> n.tag, dc |-> IF n.dc = <<>> THEN <<AgentDC>> ELSE n.dc]

\* the answers before the i-th that were made for the i-th query's service,
\* tag and datacenter to a query of type SRV or ANY
SharedBefore(i) ==
    { j \in 1 .. (i - 1) : /\ arg.qs[j].type \in {"SRV", "ANY"}
                           /\ Asked(arg.qs[j]) = Asked(arg.qs[i]) }

\* C26: queries of type SRV and ANY for the same service, tag and datacenter
\* share one cache key, hence one upstream fetch and one round-robin
\* sequence, and the type of the answer follows the type of the query.
C26_SrvSharesAnyKey ==
    (arg.op = "queries" /\ ret # NoRes) =>
        \A i \in 1 .. Len(ret.answers) :
            arg.qs[i].type \in {"SRV", "ANY"} =>
                LET a == ret.answers[i]
                IN /\ a.sent
                   /\ \A j \in SharedBefore(i) : ret.answers[j].key = a.key
                   /\ Cardinality({ f \in 1 .. Len(ret.fetches) :
                           [name |-> ret.fetches[f].name, tag |-> ret.fetches[f].tag,
                            dc |-> ret.fetches[f].dc] = Asked(arg.qs[i])
                           /\ ret.fetches[f].qtype \notin {"A", "AAAA"} }) = 1
                   /\ a.index = Cardinality(SharedBefore(i)) % Len(Endpoints)
                   /\ arg.qs[i].type = "SRV" => a.types.answer = "SRV"
                   /\ arg.qs[i].type = "ANY" => a.types.answer \in {"A", "AAAA"}

\* a query of type SRV, then one of type ANY for the same service in the
\* datacenter of the agent, named and not: one fetch, the second endpoint
C26_Witness ==
    /\ arg.op = "queries" /\ ret # NoRes /\ Len(ret.answers) >= 2
    /\ arg.qs[1] = [name |-> <<"a", "service", "consul">>, type |-> "SRV"]
    /\ arg.qs[2] = [name |-> <<"a", "service", AgentDC, "consul">>, type |-> "ANY"]
    /\ Len(ret.fetches) = 1
    /\ ret.answers[1].types = [answer |-> "SRV", extra |-> "A"]
    /\ ret.answers[2].types = [answer |-> "AAAA", extra |-> "none"]

\* ------------------------------------------------------------------ C27
\* the keys of the state map that belong to the counter series
CounterKeys == { k \in DOMAIN dstate : k[1] = "c" /\ k[2] = "counter1" }

\* C27: once the translator has processed a sample of a counter, the value
\* it stores as the last one seen is the cumulative value of that sample,
\* whether a sample was emitted or not, a reset to exactly 0 included.
C27_LastIsCumulative ==
    (last # NoScrape /\ flushed.err # "gather") =>
        /\ CounterKeys # {}
        /\ \A k \in CounterKeys : dstate[k].value = last.c

\* ------------------------------------------------------------------ C28
\* the datagrams a line of place i is written in, with its place in each
WrittenAt(i) ==
    { <<k, j>> \in (1..Len(flushed.writes)) \X (1..Len(lines)) :
          j <= Len(flushed.writes[k]) /\ flushed.writes[k][j] = i }

\* the bytes of the datagrams written, as the lengths of their lines
Written == [j \in 1..Len(Flatten(flushed.writes)) |-> lines[Flatten(flushed.writes)[j]]]

\* C28: in a flush without write error the datagrams, one after the other,
\* are the lines of the samples that fit, in the order of the samples: no
\* line is written twice, out of order or in pieces, and a datagram is closed
\* only when the next line would not fit in it.
C28_DatagramsAreLinesInOrder ==
    (flushed # NotFlushed /\ flushed.err = "none") =>
        /\ \A i \in 1..Len(lines) :
              Cardinality(WrittenAt(i)) = IF lines[i] <= bufferSize THEN 1 ELSE 0
        /\ \A a, b \in 1..Len(Flatten(flushed.writes)) :
              a < b => Flatten(flushed.writes)[a] < Flatten(flushed.writes)[b]
        /\ Sum(Written) = Sum([j \in 1..Len(Kept) |-> lines[Kept[j]]])
        /\ \A k \in 1..(Len(flushed.writes) - 1) :
              \E i \in 1..Len(lines) :
                  /\ flushed.writes[k + 1][1] = i
                  /\ dgramLen(lines, flushed.writes[k]) + lines[i] > bufferSize

\* three datagrams were written, the second of two lines
C28_Witness ==
    /\ flushed # NotFlushed /\ flushed.err = "none"
    /\ Len(flushed.writes) = 3
    /\ Len(flushed.writes[2]) = 2

\* ------------------------------------------------------------------ C29
\* the count call j of top returned for key k, 0 when it returned none
CountOf(j, k) ==
    LET I == {a \in 1..Len(tops[j].count) : tops[j].count[a].key = k}
    IN  IF I = {} THEN 0 ELSE tops[j].count[CHOOSE a \in I : TRUE].value

\* the counts the calls of top from j on returned for key k, summed
RECURSIVE SumOfTops(_, _)
SumOfTops(j, k) == IF j > Len(tops) THEN 0 ELSE CountOf(j, k) + SumOfTops(j + 1, k)

\* no call of incr or top is under way
Quiescent == \A t \in 1..MaxThreads : threads[t].pc = "idle"

\* C29: however the calls of incr and top of concurrent goroutines
\* interleave, every call of incr is counted in exactly one snapshot: when
\* every top was asked for at least as many entries as there are keys, the
\* counts the calls of top returned for a key and the count the store still
\* holds for it sum to the number of calls of incr made for the key.
C29_EveryIncrCountedOnce ==
    (Quiescent /\ \A j \in 1..Len(tops) : tops[j].n >= Cardinality(StoreKeys)) =>
        \A k \in StoreKeys :
            SumOfTops(1, k) + (IF k \in DOMAIN store THEN store[k] ELSE 0) = incrs[k]

\* two calls of top returned counts of one key, and the key was incremented
\* again since
C29_Witness ==
    /\ Quiescent /\ Len(tops) = 2
    /\ \A j \in 1..Len(tops) : tops[j].n >= Cardinality(StoreKeys)
    /\ \E k \in StoreKeys :
          /\ CountOf(1, k) >= 1 /\ CountOf(2, k) >= 1
          /\ k \in DOMAIN store
          /\ incrs[k] = MaxIncrs

\* ------------------------------------------------------------------ C30
\* C30: 'buffer SIZE' is accepted if and only if 512 <= SIZE <= 65536: a
\* size outside the range is rejected with an error, a size inside it, 512
\* and 65536 included, becomes the buffer size of the plugin.
C30_BufferRangeInclusive ==
    (arg.op = "buffer" /\ ret # NoRes /\ Len(arg.args) = 1 /\ arg.args[1].num) =>
        LET size == arg.args[1].val
        IN IF 512 <= size /\ size <= 65536
           THEN ret.err = "nil" /\ ret.BufferSize = size
           ELSE ret.err # "nil"

\* ---------------------------------------------------------------- C31
\* the request of call i sits in the request channel of an entry
Queued(i) ==
    \E e \in 1 .. Len(entries) : i \in Range(entries[e].reqs)

\* the step takes the request of call i out of an entry's channel
Dequeued(i) == Queued(i) /\ ~Queued(i)'

\* the step writes one response to the res channel of call i, or call i has
\* returned and its channel is dropped with the response
Responded(i) ==
    \/ lookups[i].pc = "ret"
    \/ Len(lookups'[i].res) = Len(lookups[i].res) + 1

Dispatched(i) ==
    /\ dpc = "dispatch"
    /\ cacheReqs # <<>> /\ Head(cacheReqs) = i
    /\ cacheReqs' = Tail(cacheReqs)

\* the step puts the request of call i into the channel of entry e, unless
\* that channel is full and the request is rejected at once
RoutedTo(i, e) ==
    IF full(entries[e].reqs)
    THEN Responded(i) /\ ~Queued(i)'
    ELSE entries'[e].reqs = Append(entries[e].reqs, i)

\* the request of call i waits for a load: it sits in the channel of an
\* entry whose load has not returned
WaitsForFetch(i) ==
    \E e \in 1 .. Len(entries) :
        entries[e].spc = "load" /\ i \in Range(entries[e].reqs)

\* C32: a request for a key that has an entry in the caches map goes to that
\* entry, whose load is over and whose goroutine answers from its channel,
\* also while a refresh of the key is in flight in prefetches; a request waits
\* for a load only when the caches map has no entry for its key
C32_CachedEntryAnswersDuringRefresh ==
    /\ [][\A i \in 1 .. MaxLookups :
            (Dispatched(i) /\ caches[lookups[i].key] # Nil)
               => /\ RoutedTo(i, caches[lookups[i].key])
                  /\ entries[caches[lookups[i].key]].spc \in {"serve", "drain"}
                  /\ ~WaitsForFetch(i)']_vars
    /\ [](\A i \in 1 .. MaxLookups :
            WaitsForFetch(i) => caches[lookups[i].key] = Nil)

\* a refresh of the key is still loading, and a request that came in during
\* the refresh sits in the channel of, or was answered by, the current entry
C32_Witness ==
    \E k \in Keys, i \in 1 .. MaxLookups :
        /\ caches[k] # Nil /\ prefetches[k] # Nil
        /\ entries[prefetches[k]].spc = "load"
        /\ entries[prefetches[k]].reqs = <<>>
        /\ lookups[i].pc = "wait" /\ lookups[i].key = k
        /\ lookups[i].res # <<>>
        /\ lookups[i].res[1].from = caches[k]
        /\ Len(entries[caches[k]].served) > PrefetchAmount

\* ---------------------------------------------------------------- C33
\* the step is goroutine q leaving init with an error
InitFailed(q) == queries[q].pc = "locked" /\ queries'[q].pc = "failed"

\* C33: over every interleaving of the queries of one plugin, init makes at
\* most one cache (and starts one dispatcher): c.cache never changes once it
\* is not nil, every goroutine that grabbed a cache holds that one, and an
\* init that fails leaves c.cache nil and the lock free, so that a later
\* query runs init again
C33_OneCacheInstalled ==
    /\ [](ncaches <= 1)
    /\ [](\A q \in 1 .. MaxQueries :
            queries[q].pc \in {"grabbed", "sent"}
               => queries[q].cache = gcache /\ gcache # Nil)
    /\ [][gcache # Nil => gcache' = gcache]_vars
    /\ [][\A q \in 1 .. MaxQueries :
            InitFailed(q) => /\ gcache = Nil /\ gcache' = Nil
                             /\ ncaches' = ncaches
                             /\ gmutex' = "free"]_vars

\* both goroutines read c.cache as nil; the init of one failed and the other,
\* taking the lock later, made the cache
C33_Witness ==
    \E q, r \in 1 .. MaxQueries :
        /\ queries[q].pc = "failed"
        /\ queries[r].pc \in {"grabbed", "sent"}
        /\ ncaches = 1 /\ gcache = 1

\* ---------------------------------------------------------------- C34
\* entry e is the value of a key in caches c or in prefetches p
InMaps(e, c, p) == \E k \in Keys : c[k] = e \/ p[k] = e

\* the step closes the request channel of entry e
Closes(e) == ~entries[e].closed /\ entries'[e].closed

\* the step sends a request on the request channel of entry e
SendsOn(e) ==
    /\ e \in 1 .. Len(entries')
    /\ Len(entries'[e].reqs) > (IF e \in 1 .. Len(entries)
                                THEN Len(entries[e].reqs) ELSE 0)

\* C34: the dispatcher never sends on and never closes a closed request
\* channel of an entry (either would panic): a channel is closed only by a
\* step after which neither map holds its entry, or by the step that ends the
\* dispatching of requests; while requests are dispatched no entry in a map
\* is closed; a send goes to an entry of a map, whose channel is open; and a
\* closed channel stays closed, so it is closed once
C34_NoSendOrCloseOnClosed ==
    /\ [](~panicked)
    /\ [](dpc = "dispatch" =>
            \A e \in 1 .. Len(entries) :
                InMaps(e, caches, prefetches) => ~entries[e].closed)
    /\ [][\A e \in 1 .. Len(entries) :
            /\ Closes(e) => \/ ~InMaps(e, caches', prefetches')
                            \/ dpc = "dispatch" /\ dpc' # "dispatch"
            /\ SendsOn(e) => ~entries[e].closed /\ ~entries'[e].closed
            /\ entries[e].closed => entries'[e].closed]_vars

\* the entry of a key was replaced by its refresh and closed, and the
\* dispatcher has since sent a request for the key on the channel of the
\* entry that replaced it
C34_Witness ==
    \E e, f \in 1 .. Len(entries) :
        /\ dpc = "dispatch"
        /\ entries[e].closed /\ ~InMaps(e, caches, prefetches)
        /\ caches[entries[f].key] = f /\ f > e
        /\ entries[f].reqs # <<>>

\* ---------------------------------------------------------------- C35
\* the dispatcher waits in its last loop for entries that will never be
\* announced: nothing is buffered on done or ready, and the goroutine of
\* every entry still in a map has returned
Stranded ==
    /\ dpc = "shutdown"
    /\ done = <<>> /\ ready = <<>>
    /\ \A e \in 1 .. Len(entries) :
          InMaps(e, caches, prefetches) => entries[e].spc = "exit"

\* C35: once cache.reqs is closed the dispatcher closes every entry of
\* caches and of prefetches and returns in the end, whatever entries the maps
\* hold at that moment: past the dispatching of requests every entry in a map
\* is closed, the dispatcher is never left waiting for an entry that will not
\* be announced, and the close leads to its return
C35_ClosedDispatcherReturns ==
    /\ [](dpc # "dispatch" =>
            \A e \in 1 .. Len(entries) :
                InMaps(e, caches, prefetches) => entries[e].closed)
    /\ [](~Stranded)
    /\ reqsClosed ~> (dpc = "returned")

\* ---------------------------------------------------------------- C36
\* the goroutine of entry e runs serviceCache.serve
Serving(e) == entries[e].spc \in {"serve", "drain"}

\* entry e expired and was taken out of caches: its goroutine waits in
\* for req := range reqs on a channel that is open and that neither a map nor
\* a buffered done or ready leads to any more, so that nobody can close it
Leaked(e) ==
    /\ entries[e].spc = "drain" /\ ~entries[e].closed
    /\ ~InMaps(e, caches, prefetches)
    /\ e \notin Range(done) /\ e \notin Range(ready)

\* C36: the goroutine of an entry that expired and was taken out of caches
\* returns in the end, its request channel being closed: no such goroutine is
\* left on a channel nobody can close, every entry whose timeout fired has
\* its goroutine return, and the goroutines that serve are no more than the
\* entries the maps hold plus those announced on done and not yet received
C36_EvictedGoroutineTerminates ==
    /\ [](\A e \in 1 .. Len(entries) : ~Leaked(e))
    /\ [](Cardinality({ e \in 1 .. Len(entries) : Serving(e) })
             <= Cardinality({ e \in 1 .. Len(entries) :
                                InMaps(e, caches, prefetches)
                                   \/ e \in Range(done) }))
    /\ \A e \in 1 .. MaxEntries :
          (e \in 1 .. Len(entries) /\ entries[e].spc = "drain")
             ~> (e \in 1 .. Len(entries) /\ entries[e].spc = "exit")

\* ---------------------------------------------------------------- C37
\* the entries the caches map holds
Cached == { caches[k] : k \in Keys } \ {Nil}

RECURSIVE SumLen(_)
\* the number of endpoints of the entries in S
SumLen(S) ==
    IF S = {} THEN 0
    ELSE LET e == CHOOSE x \in S : TRUE
         IN Len(entries[e].services) + SumLen(S \ {e})

\* C37: at every step of the main loop of the dispatcher the size gauges
\* count the entries of the caches map, success those without error and
\* denial those with one, and the services gauge is the number of endpoints
\* of the entries without error
C37_GaugesMatchCaches ==
    dpc = "dispatch" =>
        /\ gauges.success = Cardinality({ e \in Cached : ~negative(e) })
        /\ gauges.denial = Cardinality({ e \in Cached : negative(e) })
        /\ gauges.success + gauges.denial = Cardinality(Cached)
        /\ gauges.services = SumLen({ e \in Cached : ~negative(e) })

\* an entry has left the maps, expired or replaced by its refresh, and one
\* entry with endpoints is cached: the gauges went up and down and count it
C37_Witness ==
    /\ dpc = "dispatch"
    /\ Cardinality(Cached) = 1
    /\ \E e \in 1 .. Len(entries) : e \notin Cached /\ entries[e].spc # "load"
                                      /\ ~InMaps(e, caches, prefetches)
    /\ gauges.success + gauges.denial = 1
    /\ gauges.services > 0

\* ---------------------------------------------------------------- C38
\* C38: for every ttl the setup accepts, 0 included, the creation of an entry
\* computes a lifetime with its jitter and the entry goes on to serve: it
\* never panics, and the lifetime lies in [ttl/2, ttl]
C38_AcceptedTTLMakesEntry ==
    (arg.op = "spawn" /\ ret # NoRes /\ ttlAccepted(arg.ttl)) =>
        /\ ret.op = "serving"
        /\ arg.ttl \div 2 <= ret.ttl /\ ret.ttl <= arg.ttl

\* ---------------------------------------------------------------- C39
\* the count the state holds for bucket i of the histogram: the count of the
\* bucket at its latest emitted sample
StoredCount(s, i) ==
    stateGet(s, <<"h", "histogram1", <<>>, i - 1>>).count

RECURSIVE SumWeights(_, _)
\* the observations the samples at the places J of ms stand for: 1/rate each
SumWeights(ms, J) ==
    IF J = {} THEN 0
    ELSE LET j == CHOOSE x \in J : TRUE
         IN ms[j].rate[2] + SumWeights(ms, J \ {j})

\* the step is a reportMetrics whose Gather returned the families
Gathered == nreports' = nreports + 1 /\ flushed'.err # "gather"

\* the places, in the metrics the step collects, of the samples of bucket i
NewBucketSamples(i) ==
    {j \in 1..Len(metrics') : metrics'[j].kind = "h" /\ metrics'[j].index = i - 1}

\* C39: for a bucket whose count only grows, the observations the emitted
\* samples stand for (1/rate each) add up, over any sequence of flushes, to
\* the count of the bucket at the last flush. The state starts without the
\* bucket (count 0); every flush emits samples that stand for exactly the
\* growth of the stored count, and after every flush the stored count is the
\* count just gathered, so the sum over the flushes is the latest count: no
\* observation is left out or sent twice, also after flushes in which only
\* the other bucket changed
C39_DeltasSumToCount ==
    /\ []((last # NoScrape /\ dloop # "report") =>
            \A i \in 1..NBuckets : StoredCount(dstate, i) = Own(last, i))
    /\ []((last = NoScrape) =>
            \A i \in 1..NBuckets : StoredCount(dstate, i) = 0)
    /\ [][Gathered =>
            \A i \in 1..NBuckets :
                /\ SumWeights(metrics', NewBucketSamples(i))
                      = StoredCount(dstate', i) - StoredCount(dstate, i)
                /\ StoredCount(dstate', i) = Own(last', i)]_vars

\* the higher bucket had emitted its one observation; in the latest flush
\* the lower bucket alone changed: its sample stands for that change, the
\* higher bucket emitted nothing and keeps its stored count with the version
\* of its own latest sample
C39_Witness ==
    /\ prev # NoScrape /\ flushed.err # "gather" /\ dloop # "report"
    /\ Own(prev, 2) = 1 /\ Own(last, 2) = 1
    /\ Own(last, 1) = Own(prev, 1) + 1
    /\ StoredCount(dstate, 2) = 1
    /\ stateGet(dstate, <<"h", "histogram1", <<>>, 1>>).version # last.h[2]
    /\ SumWeights(metrics, BucketSamples(1)) = 1
    /\ SumWeights(metrics, BucketSamples(2)) = 0

\* ---------------------------------------------------------------- C40
\* the count of bucket i (from 1) by itself in the cumulative counts h
OwnCount(h, i) == h[i] - (IF i = 1 THEN 0 ELSE h[i - 1])

\* C40: the count delta behind the rate of every emitted histogram sample is
\* at least 1 and at most the count of its bucket at that gather, also when
\* the count of the bucket went down since the flush before (the histogram
\* was registered anew): the delta is never a uint64 difference that wrapped
C40_DeltaWithinCount ==
    (arg.op = "scrapes" /\ ret # NoRes) =>
        \A f \in 1..Len(ret.flushes) :
            \A j \in 1..Len(ret.flushes[f]) :
                LET sample == ret.flushes[f][j]
                    delta == sample.rate[2]
                IN  /\ 1 <= delta
                    /\ delta <= OwnCount(arg.hs[f], sample.index + 1)

====
